---- MODULE Spec2Model ----
(***************************************************************************)
(* Model of the authentication token / session-lifecycle subsystem of      *)
(* linkedin-clone-be:                                                       *)
(*   - the session store      (sessionRepository, gorm statements)          *)
(*   - the token issuer       (pkg/auth/jwt.go, jwtService)                 *)
(*   - the cleanup scheduler  (internal/background/session_cleanup.go)      *)
(* Every SQL statement is one atomic step; everything between two           *)
(* statements of one handler may interleave with other requests.            *)
(***************************************************************************)
EXTENDS Integers, Sequences, FiniteSets, TLC

(***************************************************************************)
(* Bounds                                                                  *)
(***************************************************************************)
\* number of session rows the store may hold
MaxSessions == 2
\* session rows while requests interleave
MaxConcSessions == 1
\* number of concurrently served requests
NumProcs == 2
\* the clock advances in steps of ClockStep hours up to MaxTime hours
ClockStep == 24
MaxTime == 72
\* sessions are issued while the clock is at most MaxIssueTime
MaxIssueTime == 24
\* sweeps counted by the scheduler (cap of totalRuns)
MaxRuns == 3
\* goroutines started by ForceCleanup that may coexist
MaxForced == 1
\* configured access lifetime in hours (cfg.JWT.ExpiryHours)
AccessTokenExpiryHours == 30
\* Start calls counted between two Stops
MaxStarts == 2
\* GetUserActiveSessions is asked for 1..MaxLimit rows from offset 0..MaxOffset
MaxLimit == 2
MaxOffset == 2
\* configured access lifetimes range over -MaxExpiryHours..MaxExpiryHours
MaxExpiryHours == 60

(***************************************************************************)
(* Values                                                                  *)
(***************************************************************************)
\* a nil *string / *time.Time
NilStr == "<nil>"
NoTime == -1

SessionActive == "active"
SessionRevoked == "revoked"
SessionExpired == "expired"

UserIDs == {1, 2}
\* the (User-Agent, client address) pairs requests arrive with
Clients == {[ua |-> "", ip |-> ""], [ua |-> "curl/8.0", ip |-> "::1"]}
SecretKey == "k"

VARIABLES
  \* ---- session store and clock
  sessions,      \* sequence of session rows, row i has ID i
  now,           \* time.Now(), in hours
  \* ---- requests served by the token issuer
  pc,            \* per request: position inside its handler
  call,          \* per request: arguments and local variables of the handler
  result,        \* per request: what the handler returned
  revokeDone,    \* IDs for which RevokeSession has completed
  \* ---- SessionCleanupService
  running, mu, stopChan, ticker, tick, wg, ctxDone,
  totalRuns, failedRuns, lastRunStatus,
  gpc,           \* per goroutine (0 = the scheduled task, >0 = ForceCleanup): position
  gerr,          \* per goroutine: err returned by CleanupExpiredSessions
  stopPc,        \* position of the caller inside Stop
  stopReturned,  \* a Stop has returned and no Start happened since
  panicked,      \* the process died of an unrecovered panic
  startLog,      \* Start calls and tasks launched since construction or the last Stop
  \* ---- BackgroundWorker (receiver w)
  w_running, w_mu, w_done, w_ticker, w_tick, w_wg, w_ctxDone,
  w_pc,          \* position of the worker's goroutine
  w_stopPc,      \* position of the caller inside BackgroundWorker.Stop
  \* ---- configuration
  cfgExpiryHours,  \* cfg.JWT.ExpiryHours handed to NewJWTService
  jwtSvc,          \* the jwtService built by NewJWTService
  envValue,        \* os.Getenv("SESSION_CLEANUP_INTERVAL_MINUTES"), as its characters
  cleanupInterval  \* SessionCleanupService.cleanupInterval

storeVars == <<sessions, now>>
reqVars == <<pc, call, result, revokeDone>>
schedVars == <<running, mu, stopChan, ticker, tick, wg, ctxDone, totalRuns, failedRuns,
               lastRunStatus, gpc, gerr, stopPc, stopReturned, panicked, startLog>>
workerVars == <<w_running, w_mu, w_done, w_ticker, w_tick, w_wg, w_ctxDone, w_pc, w_stopPc>>
confVars == <<cfgExpiryHours, jwtSvc, envValue, cleanupInterval>>
vars == <<sessions, now, pc, call, result, revokeDone,
          running, mu, stopChan, ticker, tick, wg, ctxDone, totalRuns, failedRuns,
          lastRunStatus, gpc, gerr, stopPc, stopReturned, panicked, startLog,
          w_running, w_mu, w_done, w_ticker, w_tick, w_wg, w_ctxDone, w_pc, w_stopPc,
          cfgExpiryHours, jwtSvc, envValue, cleanupInterval>>

Procs == 1..NumProcs
Goroutines == 0..MaxForced
Times == {t \in 0..MaxTime : t % ClockStep = 0}

(***************************************************************************)
(* entities.Session                                                        *)
(***************************************************************************)
\* SetIPAddress storing the address as it came
SetIPAddressRaw(s, ip) ==
  IF ip = "" THEN s ELSE [s EXCEPT !.IPAddress = ip]

\* Session.SetIPAddress: "" keeps the field, "::1" is folded to 127.0.0.1
SetIPAddress(s, ip) ==
  IF ip = "" THEN s
  ELSE IF ip = "::1" THEN [s EXCEPT !.IPAddress = "127.0.0.1"]
  ELSE [s EXCEPT !.IPAddress = ip]

\* Session.SetUserAgent: "" keeps the field
SetUserAgent(s, ua) ==
  IF ua = "" THEN s ELSE [s EXCEPT !.UserAgent = ua]

(***************************************************************************)
(* jwtService construction                                                 *)
(***************************************************************************)
\* NewJWTService: the session lifetime in days
RefreshTokenExpiryDays(accessTokenExpiryHours) ==
  IF accessTokenExpiryHours > 24 THEN (accessTokenExpiryHours \div 24) * 2 ELSE 30

\* the jwtService struct returned by NewJWTService
JWTService(accessTokenExpiryHours) ==
  [built |-> TRUE,
   accessTokenExpiry |-> accessTokenExpiryHours,
   refreshTokenExpiry |-> RefreshTokenExpiryDays(accessTokenExpiryHours)]

\* before main has built the service
NoJWTService == [built |-> FALSE, accessTokenExpiry |-> 0, refreshTokenExpiry |-> 0]

\* s.accessTokenExpiry (hours) and s.refreshTokenExpiry (days)
accessTokenExpiry == jwtSvc.accessTokenExpiry
refreshTokenExpiry == jwtSvc.refreshTokenExpiry


(***************************************************************************)
(* Access credentials (JWTClaims)                                          *)
(***************************************************************************)
NoToken == [UserID |-> 0, TokenType |-> "none", SessionID |-> 0,
            exp |-> 0, nbf |-> 0, key |-> ""]

\* the credential signed before the row has its ID: SessionID is the zero value
SignAccessNoSession(userID, sessionID, t) ==
  [UserID |-> userID, TokenType |-> "access", SessionID |-> 0,
   exp |-> t + accessTokenExpiry, nbf |-> t, key |-> SecretKey]

\* jwt.NewWithClaims(...).SignedString(secretKey) of GenerateTokens / RefreshAccessToken
SignAccess(userID, sessionID, t) ==
  [UserID |-> userID, TokenType |-> "access", SessionID |-> sessionID,
   exp |-> t + accessTokenExpiry, nbf |-> t, key |-> SecretKey]

\* jwtService.parseToken: HMAC signature under secretKey, exp and nbf of the
\* registered claims (golang-jwt v5: valid while nbf <= now < exp)
parseToken(tk, t) ==
  /\ tk.key = SecretKey
  /\ t < tk.exp
  /\ tk.nbf <= t

(***************************************************************************)
(* sessionRepository: one operator per SQL statement.  Session carries a   *)
(* gorm.DeletedAt, so Delete is a soft delete and every query and UPDATE   *)
(* sees only rows with deleted_at IS NULL.                                 *)
(***************************************************************************)
NoSession == [ID |-> 0, UserID |-> 0, RefreshToken |-> 0, Status |-> "none",
              UserAgent |-> NilStr, IPAddress |-> NilStr, ExpiresAt |-> 0,
              LastUsedAt |-> NoTime, CreatedAt |-> 0, Deleted |-> FALSE]

LiveIDs(ss) == {i \in DOMAIN ss : ~ss[i].Deleted}

\* the "" -> NULL coercion of Create and Update
NormalizeRow(s) ==
  [s EXCEPT !.UserAgent = IF @ = "" THEN NilStr ELSE @,
            !.IPAddress = IF @ = "" THEN NilStr ELSE @]

\* sessionRepository.Create: INSERT, the row gets the next ID
Create(ss, s, t) ==
  Append(ss, [NormalizeRow(s) EXCEPT !.ID = Len(ss) + 1, !.CreatedAt = t])

\* GetByRefreshToken of a single-use secret: a session already used is not found
GetByRefreshTokenUnused(ss, tok, t) ==
  LET hit == {i \in LiveIDs(ss) : /\ ss[i].RefreshToken = tok
                                  /\ ss[i].Status = SessionActive
                                  /\ ss[i].ExpiresAt > t
                                  /\ ss[i].LastUsedAt = NoTime}
  IN IF hit = {} THEN 0 ELSE CHOOSE i \in hit : \A j \in hit : i <= j

\* sessionRepository.GetByRefreshToken: the ID found, 0 for ErrRecordNotFound
GetByRefreshToken(ss, tok, t) ==
  LET hit == {i \in LiveIDs(ss) : /\ ss[i].RefreshToken = tok
                                  /\ ss[i].Status = SessionActive
                                  /\ ss[i].ExpiresAt > t}
  IN IF hit = {} THEN 0 ELSE CHOOSE i \in hit : \A j \in hit : i <= j

\* sessionRepository.GetUserActiveSessions, as the set of IDs selected
ActiveSessionIDs(ss, userID, t) ==
  {i \in LiveIDs(ss) : /\ ss[i].UserID = userID
                       /\ ss[i].Status = SessionActive
                       /\ ss[i].ExpiresAt > t}

\* ORDER BY last_used_at DESC, created_at DESC with PostgreSQL's default for
\* DESC, NULLS FIRST: row a sorts strictly before row b
SessionOrderNullsFirst(a, b) ==
  IF a.LastUsedAt # b.LastUsedAt
  THEN a.LastUsedAt = NoTime \/ (b.LastUsedAt # NoTime /\ a.LastUsedAt > b.LastUsedAt)
  ELSE a.CreatedAt > b.CreatedAt

\* ORDER BY last_used_at DESC NULLS LAST, created_at DESC: row a sorts
\* strictly before row b
SessionOrder(a, b) ==
  IF a.LastUsedAt # b.LastUsedAt
  THEN b.LastUsedAt = NoTime \/ (a.LastUsedAt # NoTime /\ a.LastUsedAt > b.LastUsedAt)
  ELSE a.CreatedAt > b.CreatedAt

\* the orders in which the database may return the rows ids: every
\* arrangement that respects ORDER BY (rows equal in both keys in any order)
Orderings(ss, ids) ==
  {f \in [1..Cardinality(ids) -> ids] :
     /\ \A j, k \in DOMAIN f : j # k => f[j] # f[k]
     /\ \A j, k \in DOMAIN f : j < k => ~SessionOrder(ss[f[k]], ss[f[j]])}

\* LIMIT limit OFFSET offset on the ordered rows f
Window(f, limit, offset) ==
  SubSeq(f, offset + 1, IF Len(f) < offset + limit THEN Len(f) ELSE offset + limit)

\* sessionRepository.GetUserActiveSessions: the lists of IDs Find may return
GetUserActiveSessions(ss, userID, limit, offset, t) ==
  {Window(f, limit, offset) : f \in Orderings(ss, ActiveSessionIDs(ss, userID, t))}

\* sessionRepository.Update: gorm Save writes every column of the struct it
\* was handed (UPDATE ... WHERE id = ?; when that matches no live row Save
\* falls back to INSERT ... ON CONFLICT (id) DO UPDATE of all columns)
Update(ss, s) ==
  IF s.ID \in DOMAIN ss THEN [ss EXCEPT ![s.ID] = NormalizeRow(s)] ELSE ss

\* UpdateLastUsedAt as a sliding expiration would write it: the touch also
\* moves ExpiresAt
UpdateLastUsedAtSliding(ss, sessionID, t) ==
  [i \in DOMAIN ss |->
     IF i \in LiveIDs(ss) /\ i = sessionID
     THEN [ss[i] EXCEPT !.LastUsedAt = t, !.ExpiresAt = t + refreshTokenExpiry * 24]
     ELSE ss[i]]

\* sessionRepository.UpdateLastUsedAt
UpdateLastUsedAt(ss, sessionID, t) ==
  [i \in DOMAIN ss |->
     IF i \in LiveIDs(ss) /\ i = sessionID THEN [ss[i] EXCEPT !.LastUsedAt = t] ELSE ss[i]]

\* sessionRepository.RevokeSession
RevokeSession(ss, sessionID) ==
  [i \in DOMAIN ss |->
     IF i \in LiveIDs(ss) /\ i = sessionID
     THEN [ss[i] EXCEPT !.Status = SessionRevoked] ELSE ss[i]]

\* RevokeUserSessions without the user_id condition
RevokeUserSessionsNoOwner(ss, userID) ==
  [i \in DOMAIN ss |->
     IF i \in LiveIDs(ss) /\ ss[i].Status = SessionActive
     THEN [ss[i] EXCEPT !.Status = SessionRevoked] ELSE ss[i]]

\* sessionRepository.RevokeUserSessions
RevokeUserSessions(ss, userID) ==
  [i \in DOMAIN ss |->
     IF i \in LiveIDs(ss) /\ ss[i].UserID = userID /\ ss[i].Status = SessionActive
     THEN [ss[i] EXCEPT !.Status = SessionRevoked] ELSE ss[i]]

\* sessionRepository.RevokeSessionByToken
RevokeSessionByToken(ss, tok) ==
  [i \in DOMAIN ss |->
     IF i \in LiveIDs(ss) /\ ss[i].RefreshToken = tok
     THEN [ss[i] EXCEPT !.Status = SessionRevoked] ELSE ss[i]]

\* DeleteExpiredSessions purging every row that is not active
DeleteExpiredSessionsNotActive(ss, t) ==
  [i \in DOMAIN ss |->
     IF i \in LiveIDs(ss) /\ (ss[i].ExpiresAt < t \/ ss[i].Status # SessionActive)
     THEN [ss[i] EXCEPT !.Deleted = TRUE] ELSE ss[i]]

\* sessionRepository.DeleteExpiredSessions
DeleteExpiredSessions(ss, t) ==
  [i \in DOMAIN ss |->
     IF i \in LiveIDs(ss) /\ (ss[i].ExpiresAt < t \/ ss[i].Status = SessionExpired)
     THEN [ss[i] EXCEPT !.Deleted = TRUE] ELSE ss[i]]


(***************************************************************************)
(* jwtService: requests                                                    *)
(***************************************************************************)
\* an Authorization header, as the text prefix ++ junk ++ tk: a scheme prefix
\* (or none), stray text (or none), a signed credential (or none)
NoHeader == [prefix |-> "", junk |-> "", tk |-> NoToken]

NoCall == [op |-> "none", arg |-> 0, tok |-> 0, ua |-> "", ip |-> "", sess |-> NoSession,
           t |-> 0, updated |-> FALSE, afterRevoke |-> FALSE, stale |-> FALSE,
           cred |-> NoToken, storeErr |-> FALSE,
           header |-> NoHeader, via |-> "", pre |-> <<>>, nomatch |-> FALSE,
           limit |-> 0, offset |-> 0, sessionID |-> 0]
NoResult == [ok |-> FALSE, err |-> "", RefreshToken |-> 0, SessionID |-> 0,
             access |-> NoToken, ExpiresAt |-> 0, RefreshExpiresAt |-> 0, status |-> 0,
             list |-> <<>>]

\* the refresh secret of session i (generateSecureToken: unique per session);
\* 0 is a secret no session has
KnownTokens == 0..Len(sessions)

\* the row (deleted or not) that carries refresh secret tok
RowOfToken(ss, tok) ==
  IF \E i \in DOMAIN ss : ss[i].RefreshToken = tok
  THEN ss[CHOOSE i \in DOMAIN ss : ss[i].RefreshToken = tok]
  ELSE NoSession

\* the handler returns r; of its locals only what the request was stays
Finish(p, r) ==
  /\ pc' = [pc EXCEPT ![p] = "done"]
  /\ result' = [result EXCEPT ![p] = r]

Fail(p, e) == Finish(p, [NoResult EXCEPT !.err = e])

Outcome(c) == [NoCall EXCEPT !.op = c.op, !.tok = c.tok, !.afterRevoke = c.afterRevoke,
                             !.stale = c.stale, !.t = c.t, !.storeErr = c.storeErr,
                             !.cred = c.cred, !.via = c.via, !.pre = c.pre,
                             !.nomatch = c.nomatch]

\* jwtService.GenerateTokens: one INSERT, then the access credential is signed
GenerateTokens(p, userID, userAgent, ipAddress) ==
  /\ pc[p] = "idle"
  /\ Len(sessions) < MaxSessions
  /\ LET refreshToken == Len(sessions) + 1
         accessExpiresAt == now + accessTokenExpiry
         refreshExpiresAt == now + refreshTokenExpiry * 24
         session == SetIPAddress(SetUserAgent(
                      [NoSession EXCEPT !.UserID = userID,
                                        !.RefreshToken = refreshToken,
                                        !.Status = SessionActive,
                                        !.ExpiresAt = refreshExpiresAt,
                                        !.LastUsedAt = NoTime], userAgent), ipAddress)
         created == Create(sessions, session, now)
         id == Len(created)
     IN /\ sessions' = created
        /\ call' = [call EXCEPT ![p] = [NoCall EXCEPT !.op = "GenerateTokens",
                                                      !.arg = userID, !.t = now]]
        /\ Finish(p, [ok |-> TRUE, err |-> "", RefreshToken |-> refreshToken,
                      SessionID |-> id, access |-> SignAccess(userID, id, now),
                      ExpiresAt |-> accessExpiresAt,
                      RefreshExpiresAt |-> refreshExpiresAt, status |-> 0,
                      list |-> <<>>])
  /\ UNCHANGED <<now, revokeDone>>
  /\ UNCHANGED <<schedVars, workerVars, confVars>>

\* a comparison that also holds at the instant itself
BeforeOrAt(t, u) == t <= u

\* time.Time.Before: t is strictly earlier than u
Before(t, u) == t < u

\* entry of ValidateRefreshToken (op = "V") or RefreshAccessToken (op = "R")
Begin(p, op, tok, userAgent, ipAddress) ==
  /\ pc[p] = "idle"
  /\ pc' = [pc EXCEPT ![p] = "vrt_get"]
  /\ call' = [call EXCEPT ![p] =
                [NoCall EXCEPT !.op = op, !.tok = tok, !.ua = userAgent,
                               !.ip = ipAddress,
                               !.afterRevoke = RowOfToken(sessions, tok).ID \in revokeDone,
                               !.stale = LET r == RowOfToken(sessions, tok)
                                         IN /\ r.ID # 0 /\ ~r.Deleted
                                            /\ r.Status = SessionActive
                                            /\ r.ExpiresAt < now]]
  /\ UNCHANGED <<sessions, now, result, revokeDone>>
  /\ UNCHANGED <<schedVars, workerVars, confVars>>

BeginValidateRefreshToken(p, tok) == Begin(p, "V", tok, "", "")

BeginRefreshAccessToken(p, tok, userAgent, ipAddress) ==
  Begin(p, "R", tok, userAgent, ipAddress)

\* ValidateRefreshToken, line 227: the lookup
VrtGet(p) ==
  /\ pc[p] = "vrt_get"
  /\ LET id == GetByRefreshToken(sessions, call[p].tok, now)
     IN IF id = 0
        THEN Fail(p, "invalid refresh token") /\ call' = [call EXCEPT ![p] = Outcome(@)]
        ELSE /\ pc' = [pc EXCEPT ![p] = "vrt_check"]
             /\ call' = [call EXCEPT ![p].sess = sessions[id]]
             /\ UNCHANGED result
  /\ UNCHANGED <<sessions, now, revokeDone>>
  /\ UNCHANGED <<schedVars, workerVars, confVars>>

\* ValidateRefreshToken, lines 232-243: the checks made on the row read
VrtCheck(p) ==
  /\ pc[p] = "vrt_check"
  /\ IF call[p].sess.Status # SessionActive
     THEN Fail(p, "session is not active") /\ call' = [call EXCEPT ![p] = Outcome(@)]
     ELSE IF Before(call[p].sess.ExpiresAt, now)
     THEN /\ pc' = [pc EXCEPT ![p] = "vrt_expire"]
          /\ call' = [call EXCEPT ![p].sess.Status = SessionExpired]
          /\ UNCHANGED result
     ELSE /\ pc' = [pc EXCEPT ![p] = "vrt_touch"]
          /\ call' = [call EXCEPT ![p].t = now]
          /\ UNCHANGED result
  /\ UNCHANGED <<sessions, now, revokeDone>>
  /\ UNCHANGED <<schedVars, workerVars, confVars>>

\* ValidateRefreshToken, lines 239-240: the expired row is saved
VrtExpire(p) ==
  /\ pc[p] = "vrt_expire"
  /\ sessions' = Update(sessions, call[p].sess)
  /\ Fail(p, "refresh token expired")
  /\ call' = [call EXCEPT ![p] = Outcome(@)]
  /\ UNCHANGED <<now, revokeDone>>
  /\ UNCHANGED <<schedVars, workerVars, confVars>>

\* ValidateRefreshToken, lines 244-252: LastUsedAt is touched, claims returned
VrtTouch(p) ==
  /\ pc[p] = "vrt_touch"
  /\ sessions' = UpdateLastUsedAt(sessions, call[p].sess.ID, call[p].t)
  /\ IF call[p].op = "V"
     THEN Finish(p, [NoResult EXCEPT !.ok = TRUE,
                                     !.SessionID = call[p].sess.ID,
                                     !.access = [NoToken EXCEPT
                                        !.UserID = call[p].sess.UserID,
                                        !.TokenType = "refresh",
                                        !.SessionID = call[p].sess.ID]])
          /\ call' = [call EXCEPT ![p] = Outcome(@)]
     ELSE pc' = [pc EXCEPT ![p] = "rat_get"] /\ UNCHANGED <<result, call>>
  /\ UNCHANGED <<now, revokeDone>>
  /\ UNCHANGED <<schedVars, workerVars, confVars>>

\* RefreshAccessToken, lines 141-172: the row is read again and the stored
\* device label and address are compared with the incoming ones
RatGet(p) ==
  /\ pc[p] = "rat_get"
  /\ LET id == GetByRefreshToken(sessions, call[p].tok, now)
         session == sessions[id]
         currentUA == IF session.UserAgent # NilStr THEN session.UserAgent ELSE ""
         currentIP == IF session.IPAddress # NilStr THEN session.IPAddress ELSE ""
         normalizedIP == IF call[p].ip = "::1" THEN "127.0.0.1" ELSE call[p].ip
         uaChanged == currentUA # call[p].ua
         ipChanged == currentIP # normalizedIP /\ normalizedIP # ""
         s1 == IF uaChanged THEN SetUserAgent(session, call[p].ua) ELSE session
         s2 == IF ipChanged THEN SetIPAddress(s1, call[p].ip) ELSE s1
     IN IF id = 0
        THEN Fail(p, "session not found") /\ call' = [call EXCEPT ![p] = Outcome(@)]
        ELSE /\ pc' = [pc EXCEPT ![p] = "rat_save"]
             /\ call' = [call EXCEPT ![p].sess = s2,
                                     ![p].updated = uaChanged \/ ipChanged]
             /\ UNCHANGED result
  /\ UNCHANGED <<sessions, now, revokeDone>>
  /\ UNCHANGED <<schedVars, workerVars, confVars>>

\* RefreshAccessToken, lines 174-209: the row is saved when it was changed,
\* a new access credential is signed with the claims of the validation
RatSave(p) ==
  /\ pc[p] = "rat_save"
  /\ sessions' = IF call[p].updated THEN Update(sessions, call[p].sess) ELSE sessions
  /\ LET access == SignAccess(call[p].sess.UserID, call[p].sess.ID, now)
     IN Finish(p, [ok |-> TRUE, err |-> "", RefreshToken |-> call[p].tok,
                      SessionID |-> call[p].sess.ID, access |-> access,
                      ExpiresAt |-> now + accessTokenExpiry,
                      RefreshExpiresAt |-> call[p].sess.ExpiresAt, status |-> 0,
                      list |-> <<>>])
  /\ call' = [call EXCEPT ![p] = Outcome(@)]
  /\ UNCHANGED <<now, revokeDone>>
  /\ UNCHANGED <<schedVars, workerVars, confVars>>

\* the error a failing statement of the store returns (a gorm error other
\* than ErrRecordNotFound: connection lost, timeout, ...)
StorageError == "storage error"

\* ValidateRefreshToken, lines 227-230, when the lookup fails in the store:
\* err != nil, whatever the error
VrtGetFault(p) ==
  /\ pc[p] = "vrt_get"
  /\ Fail(p, "invalid refresh token")
  /\ call' = [call EXCEPT ![p] = [Outcome(@) EXCEPT !.storeErr = TRUE]]
  /\ UNCHANGED <<sessions, now, revokeDone>>
  /\ UNCHANGED <<schedVars, workerVars, confVars>>

\* ValidateRefreshToken, lines 239-240, when the Update fails: its error is
\* dropped
VrtExpireFault(p) ==
  /\ pc[p] = "vrt_expire"
  /\ Fail(p, "refresh token expired")
  /\ call' = [call EXCEPT ![p] = [Outcome(@) EXCEPT !.storeErr = TRUE]]
  /\ UNCHANGED <<sessions, now, revokeDone>>
  /\ UNCHANGED <<schedVars, workerVars, confVars>>

\* ValidateRefreshToken, lines 244-252, when UpdateLastUsedAt fails: its
\* error is dropped and the claims are returned
VrtTouchFault(p) ==
  /\ pc[p] = "vrt_touch"
  /\ IF call[p].op = "V"
     THEN Finish(p, [NoResult EXCEPT !.ok = TRUE,
                                     !.SessionID = call[p].sess.ID,
                                     !.access = [NoToken EXCEPT
                                        !.UserID = call[p].sess.UserID,
                                        !.TokenType = "refresh",
                                        !.SessionID = call[p].sess.ID]])
          /\ call' = [call EXCEPT ![p] = [Outcome(@) EXCEPT !.storeErr = TRUE]]
     ELSE /\ pc' = [pc EXCEPT ![p] = "rat_get"]
          /\ call' = [call EXCEPT ![p].storeErr = TRUE]
          /\ UNCHANGED result
  /\ UNCHANGED <<sessions, now, revokeDone>>
  /\ UNCHANGED <<schedVars, workerVars, confVars>>

\* RefreshAccessToken, lines 141-144, when the lookup fails in the store
RatGetFault(p) ==
  /\ pc[p] = "rat_get"
  /\ Fail(p, "session not found")
  /\ call' = [call EXCEPT ![p] = [Outcome(@) EXCEPT !.storeErr = TRUE]]
  /\ UNCHANGED <<sessions, now, revokeDone>>
  /\ UNCHANGED <<schedVars, workerVars, confVars>>

\* RefreshAccessToken, lines 174-209, when the Update fails: its error is
\* dropped and the new access credential is returned
RatSaveFault(p) ==
  /\ pc[p] = "rat_save"
  /\ call[p].updated
  /\ LET access == SignAccess(call[p].sess.UserID, call[p].sess.ID, now)
     IN Finish(p, [ok |-> TRUE, err |-> "", RefreshToken |-> call[p].tok,
                      SessionID |-> call[p].sess.ID, access |-> access,
                      ExpiresAt |-> now + accessTokenExpiry,
                      RefreshExpiresAt |-> call[p].sess.ExpiresAt, status |-> 0,
                      list |-> <<>>])
  /\ call' = [call EXCEPT ![p] = [Outcome(@) EXCEPT !.storeErr = TRUE]]
  /\ UNCHANGED <<sessions, now, revokeDone>>
  /\ UNCHANGED <<schedVars, workerVars, confVars>>

\* a statement of the handler fails in the store
FaultStep(p) ==
  \/ VrtGetFault(p)
  \/ VrtExpireFault(p)
  \/ VrtTouchFault(p)
  \/ RatGetFault(p)
  \/ RatSaveFault(p)

\* the handler has returned; the request slot serves the next request
Return(p) ==
  /\ pc[p] = "done"
  /\ pc' = [pc EXCEPT ![p] = "idle"]
  /\ call' = [call EXCEPT ![p] = NoCall]
  /\ result' = [result EXCEPT ![p] = NoResult]
  /\ UNCHANGED <<sessions, now, revokeDone>>
  /\ UNCHANGED <<schedVars, workerVars, confVars>>

\* a request that is one statement: it returns in the step that runs it
Single(p, op, arg, tok) ==
  /\ pc[p] = "idle"
  /\ call' = [call EXCEPT ![p] = [NoCall EXCEPT !.op = op, !.arg = arg, !.tok = tok,
                                                !.t = now]]
  /\ Finish(p, [NoResult EXCEPT !.ok = TRUE])

\* jwtService.RevokeSession: one UPDATE
DoRevokeSession(p, sessionID) ==
  /\ Single(p, "RevokeSession", sessionID, 0)
  /\ sessions' = RevokeSession(sessions, sessionID)
  /\ revokeDone' = revokeDone \cup ({sessionID} \cap DOMAIN sessions)
  /\ UNCHANGED now
  /\ UNCHANGED <<schedVars, workerVars, confVars>>

\* jwtService.RevokeUserSessions: one UPDATE
DoRevokeUserSessions(p, userID) ==
  /\ Single(p, "RevokeUserSessions", userID, 0)
  /\ sessions' = RevokeUserSessions(sessions, userID)
  /\ UNCHANGED <<now, revokeDone>>
  /\ UNCHANGED <<schedVars, workerVars, confVars>>

\* jwtService.RevokeRefreshToken: one UPDATE
DoRevokeRefreshToken(p, tok) ==
  /\ Single(p, "RevokeRefreshToken", 0, tok)
  /\ sessions' = RevokeSessionByToken(sessions, tok)
  /\ UNCHANGED <<now, revokeDone>>
  /\ UNCHANGED <<schedVars, workerVars, confVars>>

\* jwtService.GetUserActiveSessions: one SELECT
DoGetUserActiveSessions(p, userID, limit, offset) ==
  /\ pc[p] = "idle"
  /\ call' = [call EXCEPT ![p] = [NoCall EXCEPT !.op = "GetUserActiveSessions",
                                                !.arg = userID, !.limit = limit,
                                                !.offset = offset, !.t = now]]
  /\ \E found \in GetUserActiveSessions(sessions, userID, limit, offset, now) :
       Finish(p, [NoResult EXCEPT !.ok = TRUE, !.list = found])
  /\ UNCHANGED <<sessions, now, revokeDone>>
  /\ UNCHANGED <<schedVars, workerVars, confVars>>

\* authService.RevokeSession asks for the caller's first 1000 sessions
RevokeSessionLimit == 1000

\* the ownership check finding any Active session with that ID, whoever owns it
FoundAnyOwner(ss, userID, sessionID, t) ==
  \E u \in UserIDs :
    \E found \in GetUserActiveSessions(ss, u, RevokeSessionLimit, 0, t) :
      \E k \in DOMAIN found : found[k] = sessionID

\* authService.RevokeSession, lines 289-303: sessionID is among the sessions
\* GetUserActiveSessions(userID, 1000, 0) returned
Found(ss, userID, sessionID, t) ==
  \E found \in GetUserActiveSessions(ss, userID, RevokeSessionLimit, 0, t) :
    \E k \in DOMAIN found : found[k] = sessionID

\* authService.RevokeSession, lines 289-305: the caller's sessions are read
\* and searched; not found is an error
AuthServiceRevokeSessionCheck(p, userID, sessionID) ==
  /\ pc[p] = "idle"
  /\ call' = [call EXCEPT ![p] = [NoCall EXCEPT !.op = "AuthService.RevokeSession",
                                                !.arg = userID, !.sessionID = sessionID,
                                                !.t = now]]
  /\ IF Found(sessions, userID, sessionID, now)
     THEN pc' = [pc EXCEPT ![p] = "ars_revoke"] /\ UNCHANGED result
     ELSE Fail(p, "session not found or does not belong to user")
  /\ UNCHANGED <<sessions, now, revokeDone>>
  /\ UNCHANGED <<schedVars, workerVars, confVars>>

\* authService.RevokeSession, line 306: jwtService.RevokeSession(sessionID)
AuthServiceRevokeSessionRevoke(p) ==
  /\ pc[p] = "ars_revoke"
  /\ sessions' = RevokeSession(sessions, call[p].sessionID)
  /\ revokeDone' = revokeDone \cup {call[p].sessionID}
  /\ Finish(p, [NoResult EXCEPT !.ok = TRUE])
  /\ UNCHANGED <<call, now>>
  /\ UNCHANGED <<schedVars, workerVars, confVars>>

\* jwtService.CleanupExpiredSessions: one DELETE
CleanupExpiredSessions(p) ==
  /\ Single(p, "CleanupExpiredSessions", 0, 0)
  /\ sessions' = DeleteExpiredSessions(sessions, now)
  /\ UNCHANGED <<now, revokeDone>>
  /\ UNCHANGED <<schedVars, workerVars, confVars>>

\* time passes
AdvanceClock ==
  /\ now + ClockStep <= MaxTime
  /\ now' = now + ClockStep
  /\ UNCHANGED <<sessions, pc, call, result, revokeDone>>
  /\ UNCHANGED <<schedVars, workerVars, confVars>>

\* ValidateToken looking the session of the credential up in the store
ValidateTokenStateful(tk, t) ==
  /\ parseToken(tk, t)
  /\ tk.TokenType = "access"
  /\ tk.SessionID \in LiveIDs(sessions)
  /\ sessions[tk.SessionID].Status = SessionActive

\* jwtService.ValidateToken
ValidateToken(tk, t) ==
  /\ parseToken(tk, t)
  /\ tk.TokenType = "access"

\* the credentials the issuer has handed out: at login, and by a refresh that
\* has just returned
Issued ==
  {SignAccess(sessions[i].UserID, i, sessions[i].CreatedAt) : i \in DOMAIN sessions}
    \cup {result[p].access : p \in {q \in Procs : result[q].access.TokenType = "access"}}

\* credentials a client may present: the ones handed out, and variants of
\* them signed with another key or carrying another kind
Presentable ==
  Issued \cup {[tk EXCEPT !.key = "other"] : tk \in Issued}
         \cup {[tk EXCEPT !.TokenType = "refresh"] : tk \in Issued}

\* a request through AuthMiddleware: ValidateToken on the presented credential
DoValidateToken(p, tk) ==
  /\ pc[p] = "idle"
  /\ call' = [call EXCEPT ![p] = [NoCall EXCEPT !.op = "ValidateToken",
                                                !.cred = tk, !.t = now]]
  /\ IF ValidateToken(tk, now)
     THEN Finish(p, [NoResult EXCEPT !.ok = TRUE, !.access = tk,
                                     !.SessionID = tk.SessionID])
     ELSE Fail(p, "invalid token")
  /\ UNCHANGED <<sessions, now, revokeDone>>
  /\ UNCHANGED <<schedVars, workerVars, confVars>>

(***************************************************************************)
(* The HTTP layer: AuthMiddleware and the refresh endpoint                 *)
(***************************************************************************)
StatusOK == 200
StatusBadRequest == 400
StatusUnauthorized == 401
StatusForbidden == 403
StatusNotFound == 404
StatusInternalServerError == 500

BearerPrefix == "Bearer "

\* the headers requests arrive with: no header, a bare credential, a
\* credential after "Bearer ", after another scheme or spelling, after
\* "Bearer " and a second blank, and "Bearer " with nothing behind it
Headers ==
  {[prefix |-> pr, junk |-> j, tk |-> tk] :
     pr \in {"", BearerPrefix, "bearer ", "Basic "}, j \in {"", " "},
     tk \in Presentable \cup {NoToken}}

\* strings.HasPrefix(authHeader, BearerPrefix) accepting any spelling of the scheme
HasPrefixFold(authHeader) == authHeader.prefix \in {BearerPrefix, "bearer "}

\* strings.HasPrefix(authHeader, BearerPrefix)
HasPrefix(authHeader) == authHeader.prefix = BearerPrefix

\* strings.TrimPrefix(authHeader, BearerPrefix), for a header that has the prefix
TrimPrefix(authHeader) == [authHeader EXCEPT !.prefix = ""]

\* ValidateToken on the text left after the prefix: stray text before the
\* credential makes it unparsable
ValidateTokenString(token, t) == token.junk = "" /\ ValidateToken(token.tk, t)

\* response.Error(c, status, ...); c.Abort(): the protected handler does not run
Abort(p, status, message) ==
  Finish(p, [NoResult EXCEPT !.status = status, !.err = message])

\* AuthMiddleware: ok records that c.Next() ran the protected handler
AuthMiddleware(p, authHeader) ==
  /\ pc[p] = "idle"
  /\ call' = [call EXCEPT ![p] = [NoCall EXCEPT !.op = "AuthMiddleware",
                                                !.header = authHeader, !.t = now]]
  /\ LET token == TrimPrefix(authHeader)
     IN IF authHeader = NoHeader
        THEN Abort(p, StatusUnauthorized, "Authorization header required")
        ELSE IF ~HasPrefix(authHeader)
        THEN Abort(p, StatusUnauthorized, "Invalid authorization header format")
        ELSE IF token = NoHeader
        THEN Abort(p, StatusUnauthorized, "Token required")
        ELSE IF ~ValidateTokenString(token, now)
        THEN Abort(p, StatusUnauthorized, "Invalid or expired token")
        ELSE Finish(p, [NoResult EXCEPT !.ok = TRUE, !.access = token.tk])
  /\ UNCHANGED <<sessions, now, revokeDone>>
  /\ UNCHANGED <<schedVars, workerVars, confVars>>

\* a request body without refresh_token (validate:"required" fails)
EmptyToken == -1

\* the switch of AuthHandler.RefreshToken answering an invalid refresh token
\* with 403
RefreshTokenStatusForbidden(err) ==
  IF err = "invalid refresh token" THEN StatusForbidden
  ELSE IF err = "user not found" THEN StatusNotFound
  ELSE StatusInternalServerError

\* the switch of AuthHandler.RefreshToken on the error of the service
RefreshTokenStatus(err) ==
  IF err = "invalid refresh token" THEN StatusUnauthorized
  ELSE IF err = "user not found" THEN StatusNotFound
  ELSE StatusInternalServerError

\* the refresh endpoint answers; the request is over
Respond(p, status, message) ==
  /\ result' = [result EXCEPT ![p] = [@ EXCEPT !.ok = (status = StatusOK),
                                               !.status = status, !.err = message]]
  /\ call' = [call EXCEPT ![p] = [@ EXCEPT !.op = "RefreshToken", !.via = ""]]
  /\ UNCHANGED pc

\* AuthHandler.RefreshToken: binding and validation of the body, then
\* authService.RefreshToken calls jwtService.RefreshAccessToken
AuthHandlerRefreshToken(p, body, userAgent, ipAddress) ==
  /\ pc[p] = "idle"
  /\ IF body = EmptyToken
     THEN /\ call' = [call EXCEPT ![p] = [NoCall EXCEPT !.op = "RefreshToken",
                                                       !.tok = body, !.t = now,
                                                       !.pre = sessions]]
          /\ Abort(p, StatusBadRequest, "Validation failed")
     ELSE /\ pc' = [pc EXCEPT ![p] = "vrt_get"]
          /\ call' = [call EXCEPT ![p] =
                        [NoCall EXCEPT !.op = "R", !.tok = body, !.ua = userAgent,
                                       !.ip = ipAddress, !.via = "RefreshToken",
                                       !.pre = sessions,
                                       !.nomatch = GetByRefreshToken(sessions, body, now) = 0]]
          /\ UNCHANGED result
  /\ UNCHANGED <<sessions, now, revokeDone>>
  /\ UNCHANGED <<schedVars, workerVars, confVars>>

\* authService.RefreshToken, lines 152-157: RefreshAccessToken has returned;
\* on an error the service returns "invalid refresh token" and the handler
\* answers, otherwise the service calls ValidateRefreshToken
AuthServiceRefreshToken(p) ==
  /\ pc[p] = "done"
  /\ call[p].via = "RefreshToken"
  /\ call[p].op = "R"
  /\ IF ~result[p].ok
     THEN Respond(p, RefreshTokenStatus("invalid refresh token"), "invalid refresh token")
     ELSE /\ pc' = [pc EXCEPT ![p] = "vrt_get"]
          /\ call' = [call EXCEPT ![p] = [@ EXCEPT !.op = "V", !.cred = result[p].access]]
          /\ UNCHANGED result
  /\ UNCHANGED <<sessions, now, revokeDone>>
  /\ UNCHANGED <<schedVars, workerVars, confVars>>

\* authService.RefreshToken, lines 157-185, and the handler's answer:
\* ValidateRefreshToken has returned; on success userRepo.GetByID finds the
\* user (found) or not
AuthHandlerRefreshTokenRespond(p, found) ==
  /\ pc[p] = "done"
  /\ call[p].via = "RefreshToken"
  /\ call[p].op = "V"
  /\ IF ~result[p].ok
     THEN Respond(p, RefreshTokenStatus("invalid refresh token"), "invalid refresh token")
     ELSE IF ~found
     THEN Respond(p, RefreshTokenStatus("user not found"), "user not found")
     ELSE /\ result' = [result EXCEPT ![p] =
                          [NoResult EXCEPT !.ok = TRUE, !.status = StatusOK,
                                           !.access = call[p].cred,
                                           !.SessionID = call[p].cred.SessionID,
                                           !.RefreshToken = call[p].tok]]
          /\ call' = [call EXCEPT ![p] = [@ EXCEPT !.op = "RefreshToken", !.via = ""]]
          /\ UNCHANGED pc
  /\ UNCHANGED <<sessions, now, revokeDone>>
  /\ UNCHANGED <<schedVars, workerVars, confVars>>

(***************************************************************************)
(* Specifications of the token issuer over the shared session store        *)
(***************************************************************************)
SchedInitVars ==
  /\ running = FALSE
  /\ mu = "free"
  /\ stopChan = "open"
  /\ ticker = "nil"
  /\ tick = FALSE
  /\ wg = 0
  /\ ctxDone = FALSE
  /\ totalRuns = 0
  /\ failedRuns = 0
  /\ lastRunStatus = "never_run"
  /\ gpc = [g \in Goroutines |-> "none"]
  /\ gerr = [g \in Goroutines |-> FALSE]
  /\ stopPc = "idle"
  /\ stopReturned = FALSE
  /\ panicked = FALSE
  /\ startLog = [calls |-> 0, launched |-> 0]

\* NewBackgroundWorker: the ticker is made by the constructor
WorkerInitVars ==
  /\ w_running = FALSE
  /\ w_mu = "free"
  /\ w_done = "open"
  /\ w_ticker = "live"
  /\ w_tick = FALSE
  /\ w_wg = 0
  /\ w_ctxDone = FALSE
  /\ w_pc = "none"
  /\ w_stopPc = "idle"

ReqInitVars ==
  /\ pc = [p \in Procs |-> "idle"]
  /\ call = [p \in Procs |-> NoCall]
  /\ result = [p \in Procs |-> NoResult]
  /\ revokeDone = {}

\* a Duration (int64 nanoseconds) as its eight bytes, least significant first
ZeroDuration == <<0, 0, 0, 0, 0, 0, 0, 0>>

\* int64(n) for 0 <= n < 2^31
ToInt64(n) ==
  <<n % 256, (n \div 256) % 256, (n \div 65536) % 256, (n \div 16777216) % 256,
    0, 0, 0, 0>>

RECURSIVE MulFrom(_, _, _, _)
\* bytes i..8 of d * k, carry coming in from the bytes below
MulFrom(d, k, i, carry) ==
  IF i > 8 THEN <<>>
  ELSE LET v == d[i] * k + carry
       IN <<v % 256>> \o MulFrom(d, k, i + 1, v \div 256)

\* d * k in int64 arithmetic: the product modulo 2^64, 0 <= k < 2^16
Mul(d, k) == MulFrom(d, k, 1, 0)

\* d * time.Minute (Minute = 60 * Second, Second = 1000 * Millisecond,
\* Millisecond = 1000 * Microsecond, Microsecond = 1000 * Nanosecond)
TimesMinute(d) == Mul(Mul(Mul(Mul(d, 60), 1000), 1000), 1000)

\* d > 0 for an int64 d: sign bit clear and not zero
Positive(d) == d[8] < 128 /\ d # ZeroDuration

\* the characters strconv.Atoi reads as decimal digits
DigitValue ==
  [c \in {"0", "1", "2", "3", "4", "5", "6", "7", "8", "9"} |->
     CASE c = "0" -> 0 [] c = "1" -> 1 [] c = "2" -> 2 [] c = "3" -> 3 [] c = "4" -> 4
       [] c = "5" -> 5 [] c = "6" -> 6 [] c = "7" -> 7 [] c = "8" -> 8 [] c = "9" -> 9]

RECURSIVE DecimalValue(_)
DecimalValue(digits) ==
  IF digits = <<>> THEN 0
  ELSE DecimalValue(SubSeq(digits, 1, Len(digits) - 1)) * 10 + DigitValue[digits[Len(digits)]]

\* strconv.Atoi: an optional sign, then one or more decimal digits; anything
\* else is a syntax error (texts of the model denote numbers below 2^31)
Atoi(text) ==
  LET signed == Len(text) > 0 /\ text[1] \in {"+", "-"}
      digits == IF signed THEN Tail(text) ELSE text
  IN IF digits = <<>> \/ \E i \in DOMAIN digits : digits[i] \notin DOMAIN DigitValue
     THEN [err |-> TRUE, n |-> 0]
     ELSE [err |-> FALSE,
           n |-> IF signed /\ text[1] = "-" THEN 0 - DecimalValue(digits)
                 ELSE DecimalValue(digits)]

\* SessionCleanupService.getCleanupInterval
getCleanupInterval(env) ==
  LET defaultInterval == TimesMinute(ToInt64(5))
      r == Atoi(env)
  IN IF env = <<>> THEN defaultInterval
     ELSE IF r.err THEN defaultInterval
     ELSE IF r.n <= 0 THEN defaultInterval
     ELSE TimesMinute(ToInt64(r.n))

\* values of SESSION_CLEANUP_INTERVAL_MINUTES: unset, not a number, zero,
\* negative, small, signed, padded, and large
EnvValues ==
  {<<>>,
   <<"a", "b", "c">>,
   <<"1", ".", "5">>,
   <<" ", "7">>,
   <<"-">>,
   <<"0">>,
   <<"-", "3">>,
   <<"1">>,
   <<"1", "0">>,
   <<"+", "4">>,
   <<"0", "0", "7">>,
   <<"1", "5", "3", "7", "2", "2", "8", "6", "7">>,
   <<"1", "5", "3", "7", "2", "2", "8", "6", "8">>,
   <<"3", "0", "7", "4", "4", "5", "7", "3", "5">>}

\* the configuration main runs with: the service built from
\* cfg.JWT.ExpiryHours, the interval variable unset
ConfInitVars ==
  /\ cfgExpiryHours = AccessTokenExpiryHours
  /\ jwtSvc = JWTService(AccessTokenExpiryHours)
  /\ envValue = <<>>
  /\ cleanupInterval = ZeroDuration

\* main, line 96: jwtService := auth.NewJWTService(cfg.JWT.SecretKey, cfg.JWT.ExpiryHours, sessionRepo)
NewJWTService ==
  /\ ~jwtSvc.built
  /\ jwtSvc' = JWTService(cfgExpiryHours)
  /\ UNCHANGED <<cfgExpiryHours, envValue, cleanupInterval>>
  /\ UNCHANGED <<storeVars, reqVars, schedVars, workerVars>>

Init ==
  /\ ConfInitVars
  /\ sessions = <<>>
  /\ now = 0
  /\ ReqInitVars
  /\ SchedInitVars
  /\ WorkerInitVars

\* a login of one of the given users, up to time latest, while the store
\* holds fewer than cap rows
Login(p, cap, users, latest) ==
  \E u \in users, c \in Clients :
     /\ Len(sessions) < cap
     /\ now <= latest
     /\ GenerateTokens(p, u, c.ua, c.ip)

\* a request enters a handler
Enter(p) ==
  \/ \E tok \in KnownTokens : BeginValidateRefreshToken(p, tok)
  \/ \E tok \in KnownTokens, c \in Clients : BeginRefreshAccessToken(p, tok, c.ua, c.ip)
  \/ \E id \in 1..MaxSessions : DoRevokeSession(p, id)
  \/ \E u \in UserIDs : DoRevokeUserSessions(p, u)
  \/ \E tok \in KnownTokens : DoRevokeRefreshToken(p, tok)
  \/ CleanupExpiredSessions(p)

\* a request inside a handler takes its next step
Step(p) ==
  \/ VrtGet(p)
  \/ VrtCheck(p)
  \/ VrtExpire(p)
  \/ VrtTouch(p)
  \/ RatGet(p)
  \/ RatSave(p)
  \/ Return(p)

\* requests of NumProcs clients interleave, statement by statement, on the
\* session of one login
Next ==
  \/ AdvanceClock
  \/ \E p \in Procs : Login(p, MaxConcSessions, {1}, 0)
  \/ \E p \in Procs : Enter(p)
  \/ \E p \in Procs : Step(p)

Spec == Init /\ [][Next]_vars

\* requests served one at a time, by the first request slot: a request
\* enters only when no request is inside a handler
Quiet == \A p \in Procs : pc[p] = "idle"

SeqNext ==
  \/ AdvanceClock
  \/ Quiet /\ Login(1, MaxSessions, UserIDs, MaxIssueTime)
  \/ Quiet /\ Enter(1)
  \/ \E tk \in Presentable : Quiet /\ DoValidateToken(1, tk)
  \/ Step(1)

SeqSpec == Init /\ [][SeqNext]_vars

\* refreshes of NumProcs clients interleave, statement by statement, on the
\* session of one login; nothing else touches the store
RefreshNext ==
  \/ AdvanceClock
  \/ \E p \in Procs : Login(p, MaxConcSessions, {1}, 0)
  \/ \E p \in Procs, tok \in KnownTokens, c \in Clients :
       BeginRefreshAccessToken(p, tok, c.ua, c.ip)
  \/ \E p \in Procs : Step(p)

RefreshSpec == Init /\ [][RefreshNext]_vars

\* validations and refreshes served one at a time against a store any
\* statement of which may fail
FaultNext ==
  \/ AdvanceClock
  \/ Quiet /\ Login(1, MaxConcSessions, {1}, 0)
  \/ \E tok \in KnownTokens : BeginValidateRefreshToken(1, tok)
  \/ \E tok \in KnownTokens, c \in Clients : BeginRefreshAccessToken(1, tok, c.ua, c.ip)
  \/ Step(1)
  \/ FaultStep(1)

FaultSpec == Init /\ [][FaultNext]_vars

\* requests through the HTTP layer, served one at a time: logins, revokes,
\* protected requests through AuthMiddleware, and the refresh endpoint
HttpNext ==
  \/ AdvanceClock
  \/ Quiet /\ Login(1, MaxConcSessions, UserIDs, 0)
  \/ \E id \in 1..MaxConcSessions : DoRevokeSession(1, id)
  \/ \E authHeader \in Headers : AuthMiddleware(1, authHeader)
  \/ \E body \in KnownTokens \cup {EmptyToken}, c \in Clients :
       AuthHandlerRefreshToken(1, body, c.ua, c.ip)
  \/ VrtGet(1)
  \/ VrtCheck(1)
  \/ VrtExpire(1)
  \/ VrtTouch(1)
  \/ RatGet(1)
  \/ RatSave(1)
  \/ AuthServiceRefreshToken(1)
  \/ \E found \in BOOLEAN : AuthHandlerRefreshTokenRespond(1, found)
  \/ call[1].via = "" /\ Return(1)

HttpSpec == Init /\ [][HttpNext]_vars

\* sessions are issued, used, revoked and purged, and listed, one request at a
\* time
ListNext ==
  \/ AdvanceClock
  \/ Quiet /\ Login(1, MaxSessions, UserIDs, MaxIssueTime)
  \/ \E tok \in KnownTokens : BeginValidateRefreshToken(1, tok)
  \/ VrtGet(1)
  \/ VrtCheck(1)
  \/ VrtExpire(1)
  \/ VrtTouch(1)
  \/ \E id \in 1..MaxSessions : DoRevokeSession(1, id)
  \/ CleanupExpiredSessions(1)
  \/ \E u \in UserIDs, limit \in 1..MaxLimit, offset \in 0..MaxOffset :
       DoGetUserActiveSessions(1, u, limit, offset)
  \/ Return(1)

ListSpec == Init /\ [][ListNext]_vars

\* one client revokes sessions through authService.RevokeSession while the
\* requests of another (validations, refreshes, revokes, purges) interleave
\* with it statement by statement; the users log in first, one after the
\* other
OwnerNext ==
  \/ AdvanceClock
  \/ \E u \in UserIDs :
       Quiet /\ now = 0 /\ u = Len(sessions) + 1 /\ GenerateTokens(2, u, "", "")
  \/ \E u \in UserIDs, id \in 1..MaxSessions : AuthServiceRevokeSessionCheck(1, u, id)
  \/ AuthServiceRevokeSessionRevoke(1)
  \/ Return(1)
  \/ \E tok \in KnownTokens : BeginValidateRefreshToken(2, tok)
  \/ \E tok \in KnownTokens : BeginRefreshAccessToken(2, tok, "curl/8.0", "::1")
  \/ \E id \in 1..MaxSessions : DoRevokeSession(2, id)
  \/ CleanupExpiredSessions(2)
  \/ Step(2)

OwnerSpec == Init /\ [][OwnerNext]_vars

\* the service is built from any configured access lifetime, then issues a
\* session
JwtConfInit ==
  /\ cfgExpiryHours \in (0 - MaxExpiryHours)..MaxExpiryHours
  /\ jwtSvc = NoJWTService
  /\ envValue = <<>>
  /\ cleanupInterval = ZeroDuration
  /\ sessions = <<>>
  /\ now = 0
  /\ ReqInitVars
  /\ SchedInitVars
  /\ WorkerInitVars

JwtConfNext ==
  \/ NewJWTService
  \/ jwtSvc.built /\ Login(1, MaxConcSessions, {1}, 0)
  \/ Return(1)

JwtConfSpec == JwtConfInit /\ [][JwtConfNext]_vars

(***************************************************************************)
(* SessionCleanupService                                                   *)
(*   mu is "free" or held by Stop, the only method that keeps it across a   *)
(*   blocking call (wg.Wait); every other critical section is one step      *)
(*   that needs mu free.                                                    *)
(*   gpc[0] is the goroutine of Start, gpc[g], g > 0, one of ForceCleanup.  *)
(***************************************************************************)
SweepsStarted == totalRuns + Cardinality({g \in Goroutines : gpc[g] = "begin"})

\* SessionCleanupService.Start, lines 49-76: the ticker is made, running set,
\* wg.Add(1), and the goroutine of the task launched; cancelled tells whether
\* the context handed in is already cancelled
StartLaunch(cancelled) ==
  /\ SweepsStarted < MaxRuns
  /\ ticker' = "live"
  /\ tick' = FALSE
  /\ running' = TRUE
  /\ wg' = wg + 1
  /\ gpc' = [gpc EXCEPT ![0] = "begin"]
  /\ ctxDone' = cancelled
  /\ stopReturned' = FALSE
  /\ startLog' = [calls |-> startLog.calls + 1, launched |-> startLog.launched + 1]
  /\ cleanupInterval' = getCleanupInterval(envValue)
  /\ UNCHANGED <<mu, stopChan, totalRuns, failedRuns, lastRunStatus, gerr, stopPc, panicked>>
  /\ UNCHANGED <<storeVars, reqVars, workerVars>>
  /\ UNCHANGED <<cfgExpiryHours, jwtSvc, envValue>>

\* Start, lines 49-51, when getCleanupInterval returned a value <= 0:
\* time.NewTicker panics ("non-positive interval for NewTicker") before
\* running is set; the deferred Unlock runs and the panic goes up
StartPanic ==
  /\ cleanupInterval' = getCleanupInterval(envValue)
  /\ panicked' = TRUE
  /\ startLog' = [startLog EXCEPT !.calls = @ + 1]
  /\ UNCHANGED <<running, mu, stopChan, ticker, tick, wg, ctxDone, totalRuns, failedRuns,
                 lastRunStatus, gpc, gerr, stopPc, stopReturned>>
  /\ UNCHANGED <<storeVars, reqVars, workerVars>>
  /\ UNCHANGED <<cfgExpiryHours, jwtSvc, envValue>>

\* Start without the check of s.running
StartUnguarded(cancelled) ==
  /\ ~panicked
  /\ mu = "free"
  /\ startLog.calls < MaxStarts
  /\ StartLaunch(cancelled)

\* SessionCleanupService.Start: the whole body runs under s.mu; when the
\* service is running it warns and returns
Start(cancelled) ==
  /\ ~panicked
  /\ mu = "free"
  /\ startLog.calls < MaxStarts
  /\ IF running
     THEN /\ startLog' = [startLog EXCEPT !.calls = @ + 1]
          /\ UNCHANGED <<running, mu, stopChan, ticker, tick, wg, ctxDone, totalRuns,
                         failedRuns, lastRunStatus, gpc, gerr, stopPc, stopReturned,
                         panicked>>
          /\ UNCHANGED <<storeVars, reqVars, workerVars, confVars>>
     ELSE IF Positive(getCleanupInterval(envValue))
     THEN StartLaunch(cancelled)
     ELSE StartPanic

\* the ticker delivers a tick (its channel holds one)
TickFire ==
  /\ ~panicked
  /\ ticker = "live"
  /\ ~tick
  /\ tick' = TRUE
  /\ UNCHANGED <<running, mu, stopChan, ticker, wg, ctxDone, totalRuns, failedRuns,
                 lastRunStatus, gpc, gerr, stopPc, stopReturned, panicked>>
  /\ UNCHANGED <<storeVars, reqVars>>
  /\ UNCHANGED <<startLog, workerVars, confVars>>

\* the context handed to Start is cancelled
CancelCtx ==
  /\ ~panicked
  /\ gpc[0] # "none"
  /\ ~ctxDone
  /\ ctxDone' = TRUE
  /\ UNCHANGED <<running, mu, stopChan, ticker, tick, wg, totalRuns, failedRuns,
                 lastRunStatus, gpc, gerr, stopPc, stopReturned, panicked>>
  /\ UNCHANGED <<storeVars, reqVars>>
  /\ UNCHANGED <<startLog, workerVars, confVars>>

\* performCleanup starting a sweep without counting it
PcBeginNoCount(g) ==
  /\ ~panicked
  /\ gpc[g] = "begin"
  /\ gpc' = [gpc EXCEPT ![g] = "purge"]
  /\ UNCHANGED <<running, mu, stopChan, ticker, tick, wg, ctxDone, totalRuns, failedRuns,
                 lastRunStatus, gerr, stopPc, stopReturned, panicked>>
  /\ UNCHANGED <<storeVars, reqVars>>
  /\ UNCHANGED <<startLog, workerVars, confVars>>

\* performCleanup, line 153: atomic.AddInt64(&s.totalRuns, 1)
PcBegin(g) ==
  /\ ~panicked
  /\ gpc[g] = "begin"
  /\ totalRuns' = totalRuns + 1
  /\ gpc' = [gpc EXCEPT ![g] = "purge"]
  /\ UNCHANGED <<running, mu, stopChan, ticker, tick, wg, ctxDone, failedRuns,
                 lastRunStatus, gerr, stopPc, stopReturned, panicked>>
  /\ UNCHANGED <<storeVars, reqVars>>
  /\ UNCHANGED <<startLog, workerVars, confVars>>

\* performCleanup, line 158: jwtService.CleanupExpiredSessions returns, with an
\* error (always, when the task's context is cancelled) or after the DELETE
PcPurge(g, fail) ==
  /\ ~panicked
  /\ gpc[g] = "purge"
  /\ (g = 0 /\ ctxDone) => fail
  /\ sessions' = IF fail THEN sessions ELSE DeleteExpiredSessions(sessions, now)
  /\ gerr' = [gerr EXCEPT ![g] = fail]
  /\ gpc' = [gpc EXCEPT ![g] = "lock1"]
  /\ UNCHANGED <<running, mu, stopChan, ticker, tick, wg, ctxDone, totalRuns, failedRuns,
                 lastRunStatus, stopPc, stopReturned, panicked>>
  /\ UNCHANGED <<now, reqVars>>
  /\ UNCHANGED <<startLog, workerVars, confVars>>

\* performCleanup, lines 161-163: s.mu.Lock(); s.lastRunTime = start; s.mu.Unlock()
PcLock1(g) ==
  /\ ~panicked
  /\ gpc[g] = "lock1"
  /\ mu = "free"
  /\ gpc' = [gpc EXCEPT ![g] = IF gerr[g] THEN "failinc" ELSE "lockok"]
  /\ UNCHANGED <<running, mu, stopChan, ticker, tick, wg, ctxDone, totalRuns, failedRuns,
                 lastRunStatus, gerr, stopPc, stopReturned, panicked>>
  /\ UNCHANGED <<storeVars, reqVars>>
  /\ UNCHANGED <<startLog, workerVars, confVars>>

\* performCleanup, line 166: atomic.AddInt64(&s.failedRuns, 1)
PcFailInc(g) ==
  /\ ~panicked
  /\ gpc[g] = "failinc"
  /\ failedRuns' = failedRuns + 1
  /\ gpc' = [gpc EXCEPT ![g] = "lockfail"]
  /\ UNCHANGED <<running, mu, stopChan, ticker, tick, wg, ctxDone, totalRuns,
                 lastRunStatus, gerr, stopPc, stopReturned, panicked>>
  /\ UNCHANGED <<storeVars, reqVars>>
  /\ UNCHANGED <<startLog, workerVars, confVars>>

\* performCleanup giving up after a failed purge: the task ends with it
PcStatusStopOnFail(g) ==
  /\ ~panicked
  /\ gpc[g] \in {"lockfail", "lockok"}
  /\ mu = "free"
  /\ lastRunStatus' = IF gpc[g] = "lockfail" THEN "failed" ELSE "success"
  /\ gpc' = [gpc EXCEPT ![g] = IF g = 0 /\ gpc[g] = "lockok" THEN "select" ELSE "none"]
  /\ wg' = IF g = 0 /\ gpc[g] = "lockfail" THEN wg - 1 ELSE wg
  /\ running' = IF g = 0 /\ gpc[g] = "lockfail" THEN FALSE ELSE running
  /\ gerr' = [gerr EXCEPT ![g] = FALSE]
  /\ UNCHANGED <<mu, stopChan, ticker, tick, ctxDone, totalRuns, failedRuns,
                 stopPc, stopReturned, panicked>>
  /\ UNCHANGED <<storeVars, reqVars>>
  /\ UNCHANGED <<startLog, workerVars, confVars>>

\* performCleanup, lines 167-169 and 190-192: lastRunStatus is set under mu,
\* and performCleanup returns: the task goes to its select, a goroutine of
\* ForceCleanup ends
PcStatus(g) ==
  /\ ~panicked
  /\ gpc[g] \in {"lockfail", "lockok"}
  /\ mu = "free"
  /\ lastRunStatus' = IF gpc[g] = "lockfail" THEN "failed" ELSE "success"
  /\ gpc' = [gpc EXCEPT ![g] = IF g = 0 THEN "select" ELSE "none"]
  /\ gerr' = [gerr EXCEPT ![g] = FALSE]
  /\ UNCHANGED <<running, mu, stopChan, ticker, tick, wg, ctxDone, totalRuns, failedRuns,
                 stopPc, stopReturned, panicked>>
  /\ UNCHANGED <<storeVars, reqVars>>
  /\ UNCHANGED <<startLog, workerVars, confVars>>

\* the select of the task, case <-s.ticker.C
SelectTick ==
  /\ ~panicked
  /\ gpc[0] = "select"
  /\ tick
  /\ SweepsStarted < MaxRuns
  /\ tick' = FALSE
  /\ gpc' = [gpc EXCEPT ![0] = "begin"]
  /\ UNCHANGED <<running, mu, stopChan, ticker, wg, ctxDone, totalRuns, failedRuns,
                 lastRunStatus, gerr, stopPc, stopReturned, panicked>>
  /\ UNCHANGED <<storeVars, reqVars>>
  /\ UNCHANGED <<startLog, workerVars, confVars>>

\* the select of the task, cases <-s.stopChan and <-ctx.Done(): the task
\* returns and its deferred wg.Done() runs
SelectExit ==
  /\ ~panicked
  /\ gpc[0] = "select"
  /\ stopChan = "closed" \/ ctxDone
  /\ gpc' = [gpc EXCEPT ![0] = "none"]
  /\ wg' = wg - 1
  /\ UNCHANGED <<running, mu, stopChan, ticker, tick, ctxDone, totalRuns, failedRuns,
                 lastRunStatus, gerr, stopPc, stopReturned, panicked>>
  /\ UNCHANGED <<storeVars, reqVars>>
  /\ UNCHANGED <<startLog, workerVars, confVars>>

\* SessionCleanupService.Stop, lines 89-94: not running, Stop returns at once
StopIdle ==
  /\ ~panicked
  /\ mu = "free"
  /\ ~running
  /\ ~stopReturned
  /\ stopReturned' = TRUE
  /\ UNCHANGED <<running, mu, stopChan, ticker, tick, wg, ctxDone, totalRuns, failedRuns,
                 lastRunStatus, gpc, gerr, stopPc, panicked>>
  /\ UNCHANGED <<storeVars, reqVars>>
  /\ UNCHANGED <<startLog, workerVars, confVars>>

\* SessionCleanupService.Stop, lines 89-103: under mu, running is cleared, the
\* ticker stopped, stopChan closed (closing it a second time panics), and the
\* caller goes to wg.Wait() still holding mu
StopBegin ==
  /\ ~panicked
  /\ mu = "free"
  /\ running
  /\ running' = FALSE
  /\ ticker' = "stopped"
  /\ IF stopChan = "closed"
     THEN panicked' = TRUE /\ UNCHANGED <<mu, stopChan, stopPc>>
     ELSE /\ stopChan' = "closed"
          /\ mu' = "Stop"
          /\ stopPc' = "wait"
          /\ UNCHANGED panicked
  /\ startLog' = [calls |-> 0, launched |-> 0]
  /\ UNCHANGED <<tick, wg, ctxDone, totalRuns, failedRuns, lastRunStatus, gpc, gerr,
                 stopReturned>>
  /\ UNCHANGED <<storeVars, reqVars, workerVars, confVars>>

\* SessionCleanupService.Stop, lines 103-115: wg.Wait() returns, Stop returns
\* and its deferred Unlock runs
StopWait ==
  /\ ~panicked
  /\ stopPc = "wait"
  /\ wg = 0
  /\ mu' = "free"
  /\ stopPc' = "idle"
  /\ stopReturned' = TRUE
  /\ UNCHANGED <<running, stopChan, ticker, tick, wg, ctxDone, totalRuns, failedRuns,
                 lastRunStatus, gpc, gerr, panicked>>
  /\ UNCHANGED <<storeVars, reqVars>>
  /\ UNCHANGED <<startLog, workerVars, confVars>>

\* SessionCleanupService.IsRunning
IsRunning == running

\* SessionCleanupService.ForceCleanup on a running service: a goroutine that
\* nothing waits for runs performCleanup
ForceCleanup(g) ==
  /\ ~panicked
  /\ g # 0
  /\ gpc[g] = "none"
  /\ mu = "free"
  /\ IsRunning
  /\ SweepsStarted < MaxRuns
  /\ gpc' = [gpc EXCEPT ![g] = "begin"]
  /\ UNCHANGED <<running, mu, stopChan, ticker, tick, wg, ctxDone, totalRuns, failedRuns,
                 lastRunStatus, gerr, stopPc, stopReturned, panicked>>
  /\ UNCHANGED <<storeVars, reqVars>>
  /\ UNCHANGED <<startLog, workerVars, confVars>>

\* the store the scheduler sweeps: two logins, a day apart, three days ago
SchedStore ==
  LET row(u) == [NoSession EXCEPT !.UserID = u, !.RefreshToken = u,
                                  !.Status = SessionActive]
      s1 == Create(<<>>, [row(1) EXCEPT !.ExpiresAt = refreshTokenExpiry * 24], 0)
  IN Create(s1, [row(2) EXCEPT !.ExpiresAt = MaxTime - ClockStep + refreshTokenExpiry * 24],
            MaxTime - ClockStep)

SchedInit ==
  /\ ConfInitVars
  /\ sessions = SchedStore
  /\ now = MaxTime
  /\ ReqInitVars
  /\ SchedInitVars
  /\ WorkerInitVars

GStep(g) ==
  \/ PcBegin(g)
  \/ \E fail \in BOOLEAN : PcPurge(g, fail)
  \/ PcLock1(g)
  \/ PcFailInc(g)
  \/ PcStatus(g)

SchedNext ==
  \/ \E cancelled \in BOOLEAN : Start(cancelled)
  \/ TickFire
  \/ CancelCtx
  \/ \E g \in Goroutines : GStep(g)
  \/ SelectTick
  \/ SelectExit
  \/ StopIdle
  \/ StopBegin
  \/ StopWait
  \/ \E g \in Goroutines : ForceCleanup(g)

SchedSpec == SchedInit /\ [][SchedNext]_vars

\* the scheduler in a process started with any value of
\* SESSION_CLEANUP_INTERVAL_MINUTES
EnvSchedInit ==
  /\ cfgExpiryHours = AccessTokenExpiryHours
  /\ jwtSvc = JWTService(AccessTokenExpiryHours)
  /\ envValue \in EnvValues
  /\ cleanupInterval = ZeroDuration
  /\ sessions = SchedStore
  /\ now = MaxTime
  /\ ReqInitVars
  /\ SchedInitVars
  /\ WorkerInitVars

EnvSchedSpec == EnvSchedInit /\ [][SchedNext]_vars

\* the Go scheduler runs every goroutine that can take a step, the store call
\* of a sweep returns, and a Stop whose wait is over returns
FairSchedSpec ==
  /\ SchedInit
  /\ [][SchedNext]_vars
  /\ \A g \in Goroutines : WF_vars(GStep(g))
  /\ WF_vars(SelectTick)
  /\ WF_vars(SelectExit)
  /\ WF_vars(StopWait)

(***************************************************************************)
(* BackgroundWorker: the second sweeper main() starts, on the same store.  *)
(*   w_pc is the position of its goroutine: "sweep" (about to run or        *)
(*   running CleanupExpiredSessions), "select", or "none".                  *)
(***************************************************************************)
\* BackgroundWorker.Start: under w.mu; a running worker warns and returns,
\* otherwise running is set, wg.Add(1), and the goroutine launched
WorkerStart ==
  /\ ~panicked
  /\ w_mu = "free"
  /\ ~w_running
  /\ w_running' = TRUE
  /\ w_wg' = w_wg + 1
  /\ w_pc' = "sweep"
  /\ UNCHANGED <<w_mu, w_done, w_ticker, w_tick, w_ctxDone, w_stopPc>>
  /\ UNCHANGED <<storeVars, reqVars, schedVars, confVars>>

\* the worker's ticker delivers a tick
WorkerTickFire ==
  /\ ~panicked
  /\ w_ticker = "live"
  /\ ~w_tick
  /\ w_tick' = TRUE
  /\ UNCHANGED <<w_running, w_mu, w_done, w_ticker, w_wg, w_ctxDone, w_pc, w_stopPc>>
  /\ UNCHANGED <<storeVars, reqVars, schedVars, confVars>>

\* the context main() handed to the worker is cancelled
WorkerCancelCtx ==
  /\ ~panicked
  /\ w_pc # "none"
  /\ ~w_ctxDone
  /\ w_ctxDone' = TRUE
  /\ UNCHANGED <<w_running, w_mu, w_done, w_ticker, w_tick, w_wg, w_pc, w_stopPc>>
  /\ UNCHANGED <<storeVars, reqVars, schedVars, confVars>>

\* BackgroundWorker.cleanupExpiredSessions: CleanupExpiredSessions returns,
\* with an error (always, under a cancelled context) or after the DELETE
WorkerSweep(fail) ==
  /\ ~panicked
  /\ w_pc = "sweep"
  /\ w_ctxDone => fail
  /\ sessions' = IF fail THEN sessions ELSE DeleteExpiredSessions(sessions, now)
  /\ w_pc' = "select"
  /\ UNCHANGED <<w_running, w_mu, w_done, w_ticker, w_tick, w_wg, w_ctxDone, w_stopPc>>
  /\ UNCHANGED <<now, reqVars, schedVars, confVars>>

\* the select of the worker, case <-w.ticker.C
WorkerSelectTick ==
  /\ ~panicked
  /\ w_pc = "select"
  /\ w_tick
  /\ w_tick' = FALSE
  /\ w_pc' = "sweep"
  /\ UNCHANGED <<w_running, w_mu, w_done, w_ticker, w_wg, w_ctxDone, w_stopPc>>
  /\ UNCHANGED <<storeVars, reqVars, schedVars, confVars>>

\* the select of the worker, cases <-w.done and <-ctx.Done(): the goroutine
\* returns and its deferred wg.Done() runs
WorkerSelectExit ==
  /\ ~panicked
  /\ w_pc = "select"
  /\ w_done = "closed" \/ w_ctxDone
  /\ w_pc' = "none"
  /\ w_wg' = w_wg - 1
  /\ UNCHANGED <<w_running, w_mu, w_done, w_ticker, w_tick, w_ctxDone, w_stopPc>>
  /\ UNCHANGED <<storeVars, reqVars, schedVars, confVars>>

\* BackgroundWorker.Stop on a running worker: running cleared, the ticker
\* stopped, w.done closed (a second close panics), then wg.Wait() under w.mu
WorkerStopBegin ==
  /\ ~panicked
  /\ w_mu = "free"
  /\ w_running
  /\ w_running' = FALSE
  /\ w_ticker' = "stopped"
  /\ IF w_done = "closed"
     THEN panicked' = TRUE /\ UNCHANGED <<w_mu, w_done, w_stopPc>>
     ELSE /\ w_done' = "closed"
          /\ w_mu' = "Stop"
          /\ w_stopPc' = "wait"
          /\ UNCHANGED panicked
  /\ UNCHANGED <<w_tick, w_wg, w_ctxDone, w_pc>>
  /\ UNCHANGED <<running, mu, stopChan, ticker, tick, wg, ctxDone, totalRuns, failedRuns,
                 lastRunStatus, gpc, gerr, stopPc, stopReturned, startLog>>
  /\ UNCHANGED <<storeVars, reqVars, confVars>>

\* BackgroundWorker.Stop: wg.Wait() returns, Stop returns, w.mu is released
WorkerStopWait ==
  /\ ~panicked
  /\ w_stopPc = "wait"
  /\ w_wg = 0
  /\ w_mu' = "free"
  /\ w_stopPc' = "idle"
  /\ UNCHANGED <<w_running, w_done, w_ticker, w_tick, w_wg, w_ctxDone, w_pc>>
  /\ UNCHANGED <<storeVars, reqVars, schedVars, confVars>>

\* BackgroundWorker.IsRunning
WorkerIsRunning == w_running

WorkerNext ==
  \/ WorkerStart
  \/ WorkerTickFire
  \/ WorkerCancelCtx
  \/ \E fail \in BOOLEAN : WorkerSweep(fail)
  \/ WorkerSelectTick
  \/ WorkerSelectExit
  \/ WorkerStopBegin
  \/ WorkerStopWait

\* the process as main() builds it: SessionCleanupService (started by
\* Server.Start) and BackgroundWorker, both over one session store
MainNext ==
  \/ SchedNext
  \/ WorkerNext

MainSpec == SchedInit /\ [][MainNext]_vars


(***************************************************************************)
(* Claims about the cleanup scheduler                                      *)
(***************************************************************************)
\* positions inside performCleanup
PerformCleanupPcs == {"begin", "purge", "lock1", "failinc", "lockfail", "lockok"}

\* positions at which CleanupExpiredSessions is about to run or running
SweepPcs == {"begin", "purge"}

\* C1: a Stop() that found the service running while a sweep of the task is
\* in flight eventually returns to its caller (the task finishes the sweep,
\* exits, and wg.Wait() is over).
C1_StopReturnsDuringSweep ==
  (stopPc = "wait" /\ gpc[0] \in PerformCleanupPcs) ~> (stopPc = "idle")

\* C2: once Stop() has returned and until the next Start, IsRunning() is
\* false and no sweep started through the scheduler (initial run, tick or
\* ForceCleanup) is executing or still to start.
C2_NoSweepAfterStop ==
  stopReturned => (~IsRunning /\ \A g \in Goroutines : gpc[g] \notin SweepPcs)

\* the fields of SessionCleanupService and the state of its goroutines
serviceState == <<running, mu, stopChan, ticker, tick, wg, ctxDone, totalRuns, failedRuns,
                  lastRunStatus, gpc, gerr, stopPc, stopReturned, panicked>>

\* C11: Start calls with no Stop in between launch exactly one sweep task (at
\* most one goroutine is counted by the WaitGroup of either sweeper), and a
\* Start on a running service changes nothing: no field, no goroutine, no row.
C11_StartIdempotent ==
  /\ [](startLog.calls >= 1 => startLog.launched = 1)
  /\ [](wg <= 1 /\ w_wg <= 1)
  /\ [][\A cancelled \in BOOLEAN :
          (running /\ Start(cancelled)) =>
            UNCHANGED <<serviceState, storeVars, reqVars, workerVars>>]_vars

C11_Witness ==
  /\ startLog.calls = MaxStarts
  /\ startLog.launched = 1
  /\ IsRunning
  /\ gpc[0] # "none"

\* neither Stop nor a cancellation of the task's context has occurred
Undisturbed == stopChan = "open" /\ ~ctxDone

\* C12: a sweep of the task whose purge returned an error ends with the task
\* back at its select: while neither Stop nor cancellation has occurred the
\* service is still running, its ticker live and the task alive, and the next
\* tick starts another sweep.
C12_FailedSweepKeepsScheduler ==
  /\ []((Undisturbed /\ gpc[0] # "none") =>
          (IsRunning /\ ticker = "live" /\ wg = 1))
  /\ [][(gpc[0] = "lockfail" /\ PcStatus(0)) =>
          (gpc'[0] = "select" /\ running' = running /\ wg' = wg)]_vars
  /\ ((Undisturbed /\ gpc[0] = "select" /\ lastRunStatus = "failed" /\ tick)
        ~> (gpc[0] = "begin" \/ ~Undisturbed \/ SweepsStarted >= MaxRuns))

\* the only sweep so far is the task's first, it failed, and a tick is pending
C12_Witness ==
  /\ Undisturbed
  /\ IsRunning
  /\ gpc[0] = "select"
  /\ totalRuns = 1
  /\ failedRuns = 1
  /\ lastRunStatus = "failed"
  /\ tick


(***************************************************************************)
(* Claims about the token issuer and the session store                     *)
(***************************************************************************)
Terminal == {SessionRevoked, SessionExpired}

\* C3: under any interleaving of the issuer's operations on one store, a
\* session whose stored Status is Revoked or Expired never has Status Active
\* again.
C3_TerminalStatus ==
  [][\A i \in DOMAIN sessions :
       sessions[i].Status \in Terminal => sessions'[i].Status # SessionActive]_vars

\* C4: once RevokeSession(id) has completed, no ValidateRefreshToken or
\* RefreshAccessToken call that starts later with that session's secret
\* succeeds, and GetUserActiveSessions of the owner does not list the session.
C4_RevocationBlocksRefresh ==
  /\ \A p \in Procs :
       (pc[p] = "done" /\ call[p].op \in {"V", "R"} /\ call[p].afterRevoke) => ~result[p].ok
  /\ \A id \in revokeDone :
       id \notin ActiveSessionIDs(sessions, sessions[id].UserID, now)

\* C5: a ValidateRefreshToken called with the secret of a stored session that
\* is Active and past its ExpiresAt fails as an invalid refresh token, and when
\* it returns the stored Status of that session is Expired.
C5_LazyExpiry ==
  \A p \in Procs :
    (pc[p] = "done" /\ call[p].op = "V" /\ call[p].stale) =>
      /\ ~result[p].ok
      /\ RowOfToken(sessions, call[p].tok).Status = SessionExpired

\* C6: the stored LastUsedAt of a session, once set, never decreases (and is
\* never unset), whatever the interleaving of ValidateRefreshToken and
\* RefreshAccessToken calls.
C6_LastUsedAtMonotone ==
  [][\A i \in DOMAIN sessions :
       sessions[i].LastUsedAt # NoTime =>
         sessions'[i].LastUsedAt >= sessions[i].LastUsedAt]_vars

\* the frame of a refresh: its writes leave ExpiresAt, RefreshToken, UserID
\* and Status of every row as they were
RefreshFrame ==
  \A i \in DOMAIN sessions :
    /\ sessions'[i].ExpiresAt = sessions[i].ExpiresAt
    /\ sessions'[i].RefreshToken = sessions[i].RefreshToken
    /\ sessions'[i].UserID = sessions[i].UserID
    /\ sessions'[i].Status = sessions[i].Status
    /\ sessions'[i].Deleted = sessions[i].Deleted

\* what a successful refresh hands back, and what it leaves in the store
RefreshReturned(p) ==
  LET s == RowOfToken(sessions, call[p].tok)
  IN /\ result[p].RefreshToken = call[p].tok
     /\ result[p].access.TokenType = "access"
     /\ result[p].access.key = SecretKey
     /\ result[p].access.SessionID = s.ID
     /\ result[p].SessionID = s.ID
     /\ result[p].RefreshExpiresAt = s.ExpiresAt
     /\ s.LastUsedAt = call[p].t
     /\ s.Status = SessionActive

C8_SweepExact ==
  [][\A p \in Procs :
       CleanupExpiredSessions(p) =>
         \A i \in LiveIDs(sessions) :
           IF sessions[i].ExpiresAt < now \/ sessions[i].Status = SessionExpired
           THEN sessions'[i].Deleted
           ELSE sessions'[i] = sessions[i]]_vars

C8_Witness ==
  \E p \in Procs :
    /\ pc[p] = "done" /\ call[p].op = "CleanupExpiredSessions" /\ call[p].t = now
    /\ \E i, j \in DOMAIN sessions :
         /\ sessions[i].Deleted
         /\ ~sessions[j].Deleted /\ sessions[j].Status = SessionRevoked

\* C9: RevokeUserSessions(userID) turns every Active session of the user into
\* a Revoked one, so none of the user's sessions is Active afterwards, and
\* leaves the rows of every other user unchanged.
C9_BulkRevoke ==
  [][\A p \in Procs, u \in UserIDs :
       DoRevokeUserSessions(p, u) =>
         /\ \A i \in LiveIDs(sessions) :
              (sessions[i].UserID = u /\ sessions[i].Status = SessionActive)
                => sessions'[i].Status = SessionRevoked
         /\ \A i \in LiveIDs(sessions') :
              sessions'[i].UserID = u => sessions'[i].Status # SessionActive
         /\ \A i \in DOMAIN sessions :
              sessions[i].UserID # u => sessions'[i] = sessions[i]]_vars

C9_Witness ==
  \E p \in Procs :
    /\ pc[p] = "done" /\ call[p].op = "RevokeUserSessions"
    /\ \E i, j \in LiveIDs(sessions) :
         /\ sessions[i].UserID = call[p].arg /\ sessions[i].Status = SessionRevoked
         /\ sessions[j].UserID # call[p].arg /\ sessions[j].Status = SessionActive

\* C10: ValidateToken does not read the store: a credential the issuer signed
\* is accepted exactly while the clock is before its expiry, whether its
\* session is active, revoked, expired or purged.
C10_ValidateTokenStateless ==
  \A p \in Procs :
    (pc[p] = "done" /\ call[p].op = "ValidateToken"
       /\ call[p].cred.key = SecretKey /\ call[p].cred.TokenType = "access") =>
      (result[p].ok <=> call[p].t < call[p].cred.exp)

C10_Witness ==
  \E p \in Procs :
    /\ pc[p] = "done" /\ call[p].op = "ValidateToken" /\ result[p].ok
    /\ LET s == sessions[call[p].cred.SessionID]
       IN s.Status = SessionRevoked \/ s.Deleted

\* C13: while a session's ExpiresAt is ahead, every RefreshAccessToken on its
\* secret that has returned, whatever refreshes ran interleaved with it, has
\* succeeded with a credential ValidateToken accepts and that names the
\* session; and the session is still Active, not purged, with the ExpiresAt
\* and the secret it was issued with.
C13_ConcurrentRefresh ==
  /\ \A p \in Procs :
       LET s == RowOfToken(sessions, call[p].tok)
       IN (pc[p] = "done" /\ call[p].op = "R" /\ s.ID # 0 /\ now < s.ExpiresAt) =>
            /\ result[p].ok
            /\ result[p].RefreshToken = call[p].tok
            /\ result[p].SessionID = s.ID
            /\ result[p].access.SessionID = s.ID
            /\ ValidateToken(result[p].access, now)
  /\ \A i \in DOMAIN sessions :
       now < sessions[i].ExpiresAt =>
         /\ sessions[i].Status = SessionActive
         /\ ~sessions[i].Deleted
         /\ sessions[i].ExpiresAt = sessions[i].CreatedAt + refreshTokenExpiry * 24
         /\ sessions[i].RefreshToken = i

\* two refreshes of one secret that overlapped have both returned successfully
C13_Witness ==
  \E p, q \in Procs :
    /\ p # q
    /\ pc[p] = "done" /\ pc[q] = "done"
    /\ call[p].op = "R" /\ call[q].op = "R"
    /\ call[p].tok = call[q].tok
    /\ result[p].ok /\ result[q].ok
    /\ RowOfToken(sessions, call[p].tok).LastUsedAt # NoTime

\* C14: a successful GenerateTokens appends exactly one row and changes no
\* other: the row is owned by the user, Active, never used, expires one
\* session lifetime after the issue time; the access credential returned is of
\* kind access, names the new row's ID and expires one access lifetime after
\* the issue time.
C14_GenerateTokens ==
  [][\A p \in Procs, u \in UserIDs, c \in Clients :
       GenerateTokens(p, u, c.ua, c.ip) =>
         LET id == Len(sessions) + 1
         IN /\ Len(sessions') = id
            /\ \A i \in DOMAIN sessions : sessions'[i] = sessions[i]
            /\ sessions'[id].ID = id
            /\ sessions'[id].UserID = u
            /\ sessions'[id].Status = SessionActive
            /\ sessions'[id].LastUsedAt = NoTime
            /\ ~sessions'[id].Deleted
            /\ sessions'[id].ExpiresAt = now + refreshTokenExpiry * 24
            /\ result'[p].ok
            /\ result'[p].SessionID = id
            /\ result'[p].RefreshToken = sessions'[id].RefreshToken
            /\ result'[p].RefreshExpiresAt = sessions'[id].ExpiresAt
            /\ result'[p].ExpiresAt = now + accessTokenExpiry
            /\ result'[p].access.TokenType = "access"
            /\ result'[p].access.UserID = u
            /\ result'[p].access.SessionID = id
            /\ result'[p].access.exp = now + accessTokenExpiry
            /\ ValidateToken(result'[p].access, now)]_vars

\* a second login has just returned, next to an earlier session
C14_Witness ==
  \E p \in Procs :
    /\ pc[p] = "done" /\ call[p].op = "GenerateTokens" /\ result[p].ok
    /\ Len(sessions) = MaxSessions
    /\ result[p].SessionID = MaxSessions
    /\ sessions[MaxSessions].LastUsedAt = NoTime
    /\ sessions[MaxSessions].CreatedAt > sessions[1].CreatedAt

\* C15: the store never holds the address "::1" itself; and a refresh that
\* arrives from "::1" with the device label the session already carries (the
\* label only ever arrives together with that address, at issue or at an
\* earlier refresh) finds nothing changed and performs no Update.
C15_AddressNormalization ==
  /\ \A i \in DOMAIN sessions : sessions[i].IPAddress # "::1"
  /\ \A p \in Procs :
       (/\ pc[p] = "rat_save"
        /\ call[p].ip = "::1"
        /\ call[p].ua # ""
        /\ sessions[call[p].sess.ID].UserAgent = call[p].ua) =>
         /\ ~call[p].updated
         /\ call[p].sess = sessions[call[p].sess.ID]

C15_Witness ==
  \E p \in Procs :
    /\ pc[p] = "rat_save"
    /\ call[p].ip = "::1"
    /\ sessions[call[p].sess.ID].UserAgent = call[p].ua
    /\ sessions[call[p].sess.ID].IPAddress = "127.0.0.1"
    /\ ~call[p].updated

\* C16: a ValidateRefreshToken or RefreshAccessToken during which a statement
\* of the store failed returns that storage error: not success, and not one
\* of the business-rule failures.
C16_StorageErrorsPropagate ==
  \A p \in Procs :
    (pc[p] = "done" /\ call[p].op \in {"V", "R"} /\ call[p].storeErr) =>
      (~result[p].ok /\ result[p].err = StorageError)

\* C17: AuthMiddleware runs the protected handler only for a header that is
\* exactly "Bearer " followed by a credential ValidateToken accepts; every
\* other request (no header, another scheme or spelling, no token, stray
\* text, a rejected token) is answered 401 and the handler does not run.
C17_AuthMiddleware ==
  \A p \in Procs :
    (pc[p] = "done" /\ call[p].op = "AuthMiddleware") =>
      LET h == call[p].header
          wellFormed == h.prefix = "Bearer " /\ h.junk = "" /\ h.tk # NoToken
      IN /\ result[p].ok <=> (wellFormed /\ ValidateToken(h.tk, call[p].t))
         /\ ~result[p].ok => result[p].status = StatusUnauthorized
         /\ result[p].ok => result[p].status = 0

\* the handler ran for a well-formed header (stateless validation: the
\* credential's session has been revoked meanwhile)
C17_Witness ==
  \E p \in Procs :
    /\ pc[p] = "done" /\ call[p].op = "AuthMiddleware"
    /\ result[p].ok
    /\ call[p].header.prefix = BearerPrefix
    /\ call[p].header.tk.SessionID \in DOMAIN sessions
    /\ sessions[call[p].header.tk.SessionID].Status = SessionRevoked

SweepsInProgress ==
  Cardinality({g \in Goroutines : gpc[g] \in SweepPcs})
    + (IF w_pc = "sweep" THEN 1 ELSE 0)

\* C19: the process runs one long-lived background sweep task: at every
\* moment at most one sweep started by background code is in progress
\* against the session store.
C19_OneSweepAtATime == SweepsInProgress <= 1

\* the revoke operations of the issuer
RevokeOps == {"RevokeSession", "RevokeUserSessions", "RevokeRefreshToken"}

\* the store after the revoke operation recorded in call c is applied to ss
ApplyRevoke(ss, c) ==
  IF c.op = "RevokeSession" THEN RevokeSession(ss, c.arg)
  ELSE IF c.op = "RevokeUserSessions" THEN RevokeUserSessions(ss, c.arg)
  ELSE RevokeSessionByToken(ss, c.tok)

\* C20: RevokeSession, RevokeUserSessions and RevokeRefreshToken return no
\* error, change a stored Status only from Active to Revoked (a session that
\* is already Revoked, is Expired or does not exist keeps its Status), and
\* applying the same revoke a second time leaves the store as the first left it.
C20_RevokeOnlyActive ==
  [][\A p \in Procs :
       (pc[p] = "idle" /\ pc'[p] = "done" /\ call'[p].op \in RevokeOps) =>
         /\ result'[p].ok
         /\ \A i \in DOMAIN sessions :
              sessions'[i].Status # sessions[i].Status =>
                (sessions[i].Status = SessionActive /\ sessions'[i].Status = SessionRevoked)
         /\ ApplyRevoke(sessions', call'[p]) = sessions']_vars

\* the session lifetime the claim states, in days
StatedSessionDays(accessLifetimeHours) ==
  IF accessLifetimeHours <= 24 THEN 30 ELSE 2 * accessLifetimeHours

\* C21: the session lifetime chosen by NewJWTService is 30 days when the
\* configured access lifetime is at most 24 hours and 2 x accessLifetimeHours
\* days when it exceeds 24 hours, and every session issued expires that many
\* days after it was created.
C21_SessionLifetime ==
  /\ jwtSvc.built => jwtSvc.refreshTokenExpiry = StatedSessionDays(cfgExpiryHours)
  /\ \A i \in DOMAIN sessions :
       sessions[i].ExpiresAt =
         sessions[i].CreatedAt + StatedSessionDays(cfgExpiryHours) * 24

\* C22: a stored session has Status Expired only if its ExpiresAt had passed
\* when the status was written: every step that writes Expired writes it on
\* a row whose ExpiresAt is before the clock, so in every reachable state an
\* Expired row is past its ExpiresAt.
C22_ExpiredOnlyAfterExpiry ==
  /\ [](\A i \in DOMAIN sessions :
          sessions[i].Status = SessionExpired => sessions[i].ExpiresAt < now)
  /\ [][\A i \in DOMAIN sessions :
          (sessions[i].Status # SessionExpired /\ sessions'[i].Status = SessionExpired) =>
            sessions'[i].ExpiresAt < now']_vars

\* ValidateRefreshToken has saved a row as Expired
C22_Witness ==
  \E i \in DOMAIN sessions, p \in Procs :
    /\ sessions[i].Status = SessionExpired
    /\ pc[p] = "done" /\ result[p].err = "refresh token expired"

\* row a is listed before row b: a was used and b never, or both were used
\* and a later, or they agree on LastUsedAt and a was created later
ListedBefore(a, b) ==
  \/ a.LastUsedAt # NoTime /\ b.LastUsedAt = NoTime
  \/ a.LastUsedAt # NoTime /\ b.LastUsedAt # NoTime /\ a.LastUsedAt > b.LastUsedAt
  \/ a.LastUsedAt = b.LastUsedAt /\ a.CreatedAt > b.CreatedAt

\* C23: GetUserActiveSessions(userID, limit, offset) returns only sessions of
\* userID that are Active, unexpired and not purged, each once, ordered by
\* LastUsedAt descending with never-used sessions last and ties broken by
\* CreatedAt descending, and the list is the window of limit rows starting
\* after offset rows of that order.
C23_ActiveSessionsListing ==
  \A p \in Procs :
    (pc[p] = "done" /\ call[p].op = "GetUserActiveSessions") =>
      LET r == result[p].list
          listed == {r[k] : k \in DOMAIN r}
          sel == {i \in DOMAIN sessions : /\ ~sessions[i].Deleted
                                          /\ sessions[i].UserID = call[p].arg
                                          /\ sessions[i].Status = SessionActive
                                          /\ sessions[i].ExpiresAt > call[p].t}
          rest == IF Cardinality(sel) > call[p].offset
                  THEN Cardinality(sel) - call[p].offset ELSE 0
          skipped == sel \ listed
      IN /\ result[p].ok
         /\ listed \subseteq sel
         /\ Cardinality(listed) = Len(r)
         /\ \A j, k \in DOMAIN r : j < k => ~ListedBefore(sessions[r[k]], sessions[r[j]])
         /\ Len(r) = IF call[p].limit < rest THEN call[p].limit ELSE rest
         /\ Len(r) > 0 =>
              /\ Cardinality({x \in skipped : ListedBefore(sessions[x], sessions[r[1]])})
                   <= call[p].offset
              /\ Cardinality({x \in skipped : ~ListedBefore(sessions[r[1]], sessions[x])})
                   >= call[p].offset

\* both sessions of a user are listed, the used one before the never-used one
\* although it was created earlier
C23_Witness ==
  \E p \in Procs :
    /\ pc[p] = "done" /\ call[p].op = "GetUserActiveSessions"
    /\ Len(result[p].list) = 2
    /\ sessions[result[p].list[1]].LastUsedAt # NoTime
    /\ sessions[result[p].list[2]].LastUsedAt = NoTime
    /\ sessions[result[p].list[1]].CreatedAt < sessions[result[p].list[2]].CreatedAt

\* C24: after Start on a stopped scheduler the task runs one sweep at once,
\* before any tick; every later sweep of the task takes one tick; the task
\* exits only on a stop signal or cancellation of its context; and once either
\* signal has arrived no tick-driven sweep starts any more.  The same for the
\* BackgroundWorker.
C24_SweepPerTickUntilSignal ==
  [][/\ (~running /\ running') => (gpc'[0] = "begin" /\ ~tick')
     /\ (gpc[0] = "select" /\ gpc'[0] = "begin") => (tick /\ ~tick')
     /\ (gpc[0] # "none" /\ gpc'[0] = "none") => (stopChan = "closed" \/ ctxDone)
     /\ (gpc[0] = "select" /\ gpc'[0] = "begin") => (stopChan = "open" /\ ~ctxDone)
     /\ (~w_running /\ w_running') => w_pc' = "sweep"
     /\ (w_pc = "select" /\ w_pc' = "sweep") => (w_tick /\ ~w_tick')
     /\ (w_pc # "none" /\ w_pc' = "none") => (w_done = "closed" \/ w_ctxDone)
     /\ (w_pc = "select" /\ w_pc' = "sweep") => (w_done = "open" /\ ~w_ctxDone)]_vars

\* the text is a decimal numeral (an optional "+", then digits)
IsNumeral(text) ==
  LET digits == IF Len(text) > 0 /\ text[1] = "+" THEN Tail(text) ELSE text
  IN digits # <<>> /\ \A i \in DOMAIN digits : digits[i] \in DOMAIN DigitValue

\* the number a numeral denotes
NumeralValue(text) ==
  DecimalValue(IF text[1] = "+" THEN Tail(text) ELSE text)

RECURSIVE ExactFrom(_, _, _, _)
\* the bytes of n * k without a limit on their number
ExactFrom(d, k, i, carry) ==
  IF i > Len(d)
  THEN IF carry = 0 THEN <<>> ELSE <<carry % 256>> \o ExactFrom(d, k, i, carry \div 256)
  ELSE LET v == d[i] * k + carry
       IN <<v % 256>> \o ExactFrom(d, k, i + 1, v \div 256)

\* minutes as nanoseconds in unbounded arithmetic, least significant byte first
ExactMinutes(minutes) ==
  LET x1 == ExactFrom(ToInt64(minutes), 60, 1, 0)
      x2 == ExactFrom(x1, 1000, 1, 0)
      x3 == ExactFrom(x2, 1000, 1, 0)
  IN ExactFrom(x3, 1000, 1, 0)

\* C25: once Start has computed it, the sweep interval is the configured
\* number of minutes when SESSION_CLEANUP_INTERVAL_MINUTES is a positive
\* integer and 5 minutes when it is unset, not an integer, zero or negative;
\* it is strictly positive.
C25_CleanupInterval ==
  cleanupInterval # ZeroDuration =>
    LET minutes == IF IsNumeral(envValue) /\ NumeralValue(envValue) > 0
                   THEN NumeralValue(envValue) ELSE 5
    IN /\ cleanupInterval = ExactMinutes(minutes)
       /\ Positive(cleanupInterval)

\* goroutines that take the step from position a to position b
Moving(a, b) == {g \in Goroutines : gpc[g] = a /\ gpc'[g] = b}

\* C26: the sweep counters are exact, also with sweeps of ForceCleanup
\* running beside the task's: each sweep adds one to totalRuns when it
\* starts, a sweep adds one to failedRuns exactly when its purge returned an
\* error, 0 <= failedRuns <= totalRuns in every state, and lastRunStatus is
\* "never_run" only while no sweep has completed.
C26_CountersExact ==
  /\ [](0 <= failedRuns /\ failedRuns <= totalRuns)
  /\ [][/\ totalRuns' = totalRuns + Cardinality(Moving("begin", "purge"))
         /\ failedRuns' = failedRuns + Cardinality(Moving("failinc", "lockfail"))
         /\ \A g \in Goroutines :
              /\ (gpc[g] = "lock1" /\ gpc'[g] # "lock1") =>
                   gpc'[g] = (IF gerr[g] THEN "failinc" ELSE "lockok")
              /\ (gpc[g] = "lockfail" /\ gpc'[g] # "lockfail") => lastRunStatus' = "failed"
              /\ (gpc[g] = "lockok" /\ gpc'[g] # "lockok") => lastRunStatus' = "success"
         /\ lastRunStatus # "never_run" => lastRunStatus' # "never_run"]_vars

\* a forced sweep is in progress beside the task's sweep, after a sweep that
\* failed
C26_Witness ==
  /\ gpc[0] \in PerformCleanupPcs
  /\ \E g \in Goroutines \ {0} : gpc[g] \in PerformCleanupPcs
  /\ failedRuns = 1
  /\ totalRuns >= 2
  /\ lastRunStatus = "failed"

\* C27: IsRunning() agrees with the task's liveness: whenever IsRunning()
\* returns true, of the SessionCleanupService or of the BackgroundWorker, the
\* goroutine of its sweep task is still alive.
C27_IsRunningMeansAlive ==
  /\ (IsRunning /\ mu = "free") => gpc[0] # "none"
  /\ (WorkerIsRunning /\ w_mu = "free") => w_pc # "none"

\* C28: the scheduler can be restarted: in every sequence of Start and Stop
\* calls no call panics (Stop never closes a stop channel that is already
\* closed), and a task launched by a Start, also one issued after a
\* completed Stop, stays alive until the next Stop or the cancellation of its
\* context.  The same for the BackgroundWorker.
C28_Restartable ==
  /\ ~panicked
  /\ (running /\ stopPc = "idle" /\ ~ctxDone) => gpc[0] # "none"
  /\ (w_running /\ w_stopPc = "idle" /\ ~w_ctxDone) => w_pc # "none"

\* C29: an access credential never outlives its session: the expiry of every
\* access credential returned by GenerateTokens or RefreshAccessToken is no
\* later than the ExpiresAt of the session its SessionID claim names.
C29_CredentialWithinSession ==
  \A p \in Procs :
    (pc[p] = "done" /\ result[p].ok /\ call[p].op \in {"GenerateTokens", "R"}) =>
      /\ result[p].access.SessionID \in DOMAIN sessions
      /\ result[p].access.exp <= sessions[result[p].access.SessionID].ExpiresAt

====
